---- MODULE Spec2Model ----
(***************************************************************************)
(* Weekly routine tracker: score rules, the CSV record store with          *)
(* week-scoped upsert/delete, and the sessions (Streamlit UI, legacy UI,   *)
(* command line) that write the store.                                     *)
(*                                                                         *)
(* Dates are day numbers; day 0 is a Monday, so date.weekday() is d % 7.   *)
(* Scores are kept in hundredths of a point (the code rounds to two        *)
(* decimals and the tables have at most one decimal), together with the    *)
(* Python type of the number ("int" or "float"), because str() of the two  *)
(* differs in the file ("30" against "30.0").                              *)
(* Category names of the source are written in ASCII:                      *)
(*   life_rhythm, meditation_journal, study_hours, exercise, keywords.     *)
(***************************************************************************)
EXTENDS Integers, Sequences, FiniteSets, TLC

VARIABLES
    csv,      \* the persistence file: [exists, rows]; rows are the text rows under the header
    before,   \* the persistence file as it was when the last operation started
    call,     \* the last operation: name, arguments, error raised, value returned
    hist,     \* the two direct store calls made before the last one, older first
    nops,     \* number of operations performed
    ret,      \* the value the last aggregation, grade, chart or report call returned,
              \* the message of its error, the number of charts it asked for, and
              \* what it ran with: whether matplotlib imports, the chart path's suffix
    art,      \* the artifacts beside the store: the chart file and the report file
    page,     \* the report document as a browser shows it: the classes of its elements
    sess      \* the call of upsert_week_entries each concurrent session is in (of),
              \* and the order in which the sessions loaded and saved (log)

vars == <<csv, before, call, hist, nops, ret, art, page, sess>>

-----------------------------------------------------------------------------
(* Bounds of the model *)

MaxDate == 7
MaxOps == 2
MaxApiOps == 2
MaxLegacyOps == 3
MaxInitRows == 2

Dates == 0..MaxDate

-----------------------------------------------------------------------------
(* routine_core.py: configuration tables *)

LifeRhythm == "life_rhythm"
Meditation == "meditation_journal"
StudyHours == "study_hours"
Exercise == "exercise"
Keywords == "keywords"

CATEGORY_ORDER == <<LifeRhythm, Meditation, StudyHours, Exercise, Keywords>>

CATEGORY_WEIGHTS ==
    (LifeRhythm :> 30) @@ (Meditation :> 15) @@ (StudyHours :> 30)
        @@ (Exercise :> 10) @@ (Keywords :> 15)

Categories == DOMAIN CATEGORY_WEIGHTS

StudyHoursMax == 84
DayCountMax == 7

\* A Python number: value in hundredths and its type
PyInt(n) == [val |-> n * 100, form |-> "int"]
PyFloat(h) == [val |-> h, form |-> "float"]

SCORE_TABLES ==
    (LifeRhythm :>
        <<PyInt(0), PyInt(3), PyInt(5), PyInt(10), PyInt(15), PyInt(25), PyInt(27), PyInt(30)>>)
    @@ (Meditation :>
        <<PyInt(0), PyInt(3), PyInt(6), PyInt(8), PyInt(10), PyInt(13), PyInt(14), PyInt(15)>>)
    @@ (Exercise :>
        <<PyInt(0), PyInt(2), PyInt(4), PyInt(7), PyInt(8), PyInt(9), PyFloat(950), PyInt(10)>>)
    @@ (Keywords :>
        <<PyInt(0), PyInt(2), PyInt(4), PyInt(8), PyInt(10), PyInt(12), PyInt(14), PyInt(15)>>)

-----------------------------------------------------------------------------
(* routine_core.py: pure functions *)

NoError == "None"
ValueError == "ValueError"
KeyError == "KeyError"

NoScore == [val |-> 0, form |-> "none"]

\* day - timedelta(days=day.weekday())
week_start_for_day(day) == day - (day % 7)

\* round(x, 2) for x = num/den points, in hundredths (no tie occurs: the
\* fractions met are multiples of 1/7)
Round2(num, den) == (2 * 100 * num + den) \div (2 * den)

\* GRADE_THRESHOLDS, in the order of the list
GRADE_THRESHOLDS ==
    <<[threshold |-> 95, label |-> "SS"], [threshold |-> 90, label |-> "S"],
      [threshold |-> 85, label |-> "A"], [threshold |-> 75, label |-> "B"],
      [threshold |-> 65, label |-> "C"], [threshold |-> 55, label |-> "D"],
      [threshold |-> 0, label |-> "caution"]>>

\* the loop of grade_for_score from item i on; score in hundredths
RECURSIVE GradeFrom(_, _)
GradeFrom(score, i) ==
    IF i > Len(GRADE_THRESHOLDS) THEN "caution"
    ELSE IF score >= GRADE_THRESHOLDS[i].threshold * 100 THEN GRADE_THRESHOLDS[i].label
    ELSE GradeFrom(score, i + 1)

\* grade_for_score with > where the code has >=
grade_for_score_strict(score) ==
    IF score > 9500 THEN "SS" ELSE IF score > 9000 THEN "S" ELSE IF score > 8500 THEN "A"
    ELSE IF score > 7500 THEN "B" ELSE IF score > 6500 THEN "C" ELSE IF score > 5500 THEN "D"
    ELSE "caution"

\* grade_for_score: the label of the first threshold the score reaches
grade_for_score(score) == GradeFrom(score, 1)

\* calculate_score cutting the hour score to two decimals instead of rounding it
calculate_score_truncating(category, days) ==
    IF category = StudyHours
        THEN [err |-> NoError,
              score |-> PyFloat((100 * days * CATEGORY_WEIGHTS[category]) \div StudyHoursMax)]
    ELSE IF days \in 0..DayCountMax
        THEN [err |-> NoError, score |-> SCORE_TABLES[category][days + 1]]
    ELSE [err |-> KeyError, score |-> NoScore]

\* calculate_score: [err, score]; no range check, the table lookup raises
\* KeyError for a count that is not a key
calculate_score(category, days) ==
    IF category = StudyHours
        THEN [err |-> NoError,
              score |-> PyFloat(Round2(days * CATEGORY_WEIGHTS[category], StudyHoursMax))]
    ELSE IF days \in 0..DayCountMax
        THEN [err |-> NoError, score |-> SCORE_TABLES[category][days + 1]]
    ELSE [err |-> KeyError, score |-> NoScore]

\* validate_days: the error it raises, or NoError
validate_days(category, days) ==
    IF days < 0 THEN ValueError
    ELSE IF category = StudyHours
        THEN (IF days > StudyHoursMax THEN ValueError ELSE NoError)
    ELSE IF days > DayCountMax THEN ValueError
    ELSE NoError

RoutineEntry(week_start, category, days, score) ==
    [week_start |-> week_start, category |-> category, days |-> days, score |-> score]

\* build_entry storing the count where the score belongs
build_entry_days_as_score(week_start, category, days) ==
    IF validate_days(category, days) # NoError
        THEN [err |-> validate_days(category, days), entries |-> <<>>]
    ELSE [err |-> NoError,
          entries |-> <<RoutineEntry(week_start, category, days, PyInt(days))>>]

\* build_entry of routine_core: [err, entries], entries holding the entry built
build_entry(week_start, category, days) ==
    IF validate_days(category, days) # NoError
        THEN [err |-> validate_days(category, days), entries |-> <<>>]
    ELSE IF calculate_score(category, days).err # NoError
        THEN [err |-> calculate_score(category, days).err, entries |-> <<>>]
    ELSE [err |-> NoError,
          entries |-> <<RoutineEntry(week_start, category, days,
                                     calculate_score(category, days).score)>>]

-----------------------------------------------------------------------------
(* The persistence file.  A field of a row is a text [val, form]: form says *)
(* which text it is ("ymd" a %Y-%m-%d date, "int" a plain integer, "float" *)
(* a decimal number, "bad" a text the parser of that column rejects).      *)

BadText == [val |-> 0, form |-> "bad"]
DateText(d) == [val |-> d, form |-> "ymd"]
IntText(n) == [val |-> n, form |-> "int"]

StrayCategory == "stray"

Row(week_text, category, days_text, score_text) ==
    [week_start |-> week_text, category |-> category, days |-> days_text, score |-> score_text]

AbsentFile == [exists |-> FALSE, rows |-> <<>>]
File(rows) == [exists |-> TRUE, rows |-> rows]

\* datetime.strptime(value, DATE_FMT).date(): [err, val]
parse_date(text) ==
    IF text.form = "ymd" THEN [err |-> NoError, val |-> text.val]
    ELSE [err |-> ValueError, val |-> 0]

\* int(row["days"])
ParseInt(text) ==
    IF text.form = "int" THEN [err |-> NoError, val |-> text.val]
    ELSE [err |-> ValueError, val |-> 0]

\* float(row["score"]): accepts "30" and "30.0" alike and always gives a float
ParseFloat(text) ==
    IF text.form \in {"int", "float"} THEN [err |-> NoError, val |-> PyFloat(text.val)]
    ELSE [err |-> ValueError, val |-> NoScore]

\* load_entries skipping a row that does not parse instead of raising
LoadRow_skip_unparsable(row) ==
    IF row.category \notin Categories THEN [step |-> "skip", entries |-> <<>>]
    ELSE IF \/ ParseInt(row.days).err # NoError
            \/ parse_date(row.week_start).err # NoError
            \/ ParseFloat(row.score).err # NoError
        THEN [step |-> "skip", entries |-> <<>>]
    ELSE [step |-> "append",
          entries |-> <<RoutineEntry(parse_date(row.week_start).val, row.category,
                                     ParseInt(row.days).val, ParseFloat(row.score).val)>>]

\* One pass of the loop body of load_entries over row i: "skip", "raise" or "append"
LoadRow(row) ==
    IF row.category \notin Categories THEN [step |-> "skip", entries |-> <<>>]
    ELSE IF ParseInt(row.days).err # NoError THEN [step |-> "raise", entries |-> <<>>]
    ELSE IF parse_date(row.week_start).err # NoError THEN [step |-> "raise", entries |-> <<>>]
    ELSE IF ParseFloat(row.score).err # NoError THEN [step |-> "raise", entries |-> <<>>]
    ELSE [step |-> "append",
          entries |-> <<RoutineEntry(parse_date(row.week_start).val, row.category,
                                     ParseInt(row.days).val, ParseFloat(row.score).val)>>]

RECURSIVE LoadRows(_, _, _)
LoadRows(rows, i, entries) ==
    IF i > Len(rows) THEN [err |-> NoError, entries |-> entries]
    ELSE LET row == LoadRow(rows[i])
         IN  IF row.step = "raise" THEN [err |-> ValueError, entries |-> <<>>]
             ELSE LoadRows(rows, i + 1, entries \o row.entries)

\* load_entries: [err, entries]
load_entries(file) ==
    IF ~file.exists THEN [err |-> NoError, entries |-> <<>>]
    ELSE LoadRows(file.rows, 1, <<>>)

\* The row csv.writer writes for an entry: strftime of the date, str() of the numbers
WriteRow(entry) ==
    Row(DateText(entry.week_start), entry.category, IntText(entry.days), entry.score)

\* save_entries: the file it leaves (created when absent, fully rewritten)
save_entries(entries) ==
    File([i \in 1..Len(entries) |-> WriteRow(entries[i])])

\* [entry for entry in existing if entry.week_start != week_start]
RECURSIVE OtherWeeks(_, _)
OtherWeeks(entries, week_start) ==
    IF entries = <<>> THEN <<>>
    ELSE IF Head(entries).week_start # week_start
        THEN <<Head(entries)>> \o OtherWeeks(Tail(entries), week_start)
    ELSE OtherWeeks(Tail(entries), week_start)

\* upsert_week_entries appending without removing the week first
upsert_week_entries_append(file, week_start, entries) ==
    LET existing == load_entries(file)
    IN  IF existing.err # NoError
            THEN [err |-> existing.err, file |-> file]
        ELSE [err |-> NoError, file |-> save_entries(existing.entries \o entries)]

\* upsert_week_entries taking a file that does not load as holding no entries
upsert_week_entries_save_on_error(file, week_start, entries) ==
    LET existing == load_entries(file)
    IN  [err |-> NoError,
         file |-> save_entries(OtherWeeks(existing.entries, week_start) \o entries)]

\* upsert_week_entries: [err, file]; an error of load_entries leaves the file as it is
upsert_week_entries(file, week_start, entries) ==
    LET existing == load_entries(file)
    IN  IF existing.err # NoError
            THEN [err |-> existing.err, file |-> file]
        ELSE [err |-> NoError,
              file |-> save_entries(OtherWeeks(existing.entries, week_start) \o entries)]

\* delete_week_entries removing only the first entry of the week
delete_week_entries_first(file, week_start) ==
    LET existing == load_entries(file)
        hits == {i \in 1..Len(existing.entries) : existing.entries[i].week_start = week_start}
        first == CHOOSE i \in hits : \A j \in hits : i <= j
    IN  IF existing.err # NoError
            THEN [err |-> existing.err, file |-> file]
        ELSE IF hits = {} THEN [err |-> NoError, file |-> save_entries(existing.entries)]
        ELSE [err |-> NoError,
              file |-> save_entries(SubSeq(existing.entries, 1, first - 1)
                                    \o SubSeq(existing.entries, first + 1,
                                              Len(existing.entries)))]

\* delete_week_entries: [err, file]
delete_week_entries(file, week_start) ==
    LET existing == load_entries(file)
    IN  IF existing.err # NoError
            THEN [err |-> existing.err, file |-> file]
        ELSE [err |-> NoError,
              file |-> save_entries(OtherWeeks(existing.entries, week_start))]

\* append_entry replacing the stored entries of the entry's (week_start, category)
append_entry_replacing(file, entry) ==
    LET entries == load_entries(file)
        others == SelectSeq(entries.entries,
                            LAMBDA e : ~(e.week_start = entry.week_start
                                         /\ e.category = entry.category))
    IN  IF entries.err # NoError
            THEN [err |-> entries.err, file |-> file]
        ELSE [err |-> NoError, file |-> save_entries(Append(others, entry))]

\* routine_tracker.append_entry: [err, file]
append_entry(file, entry) ==
    LET entries == load_entries(file)
    IN  IF entries.err # NoError
            THEN [err |-> entries.err, file |-> file]
        ELSE [err |-> NoError, file |-> save_entries(Append(entries.entries, entry))]

-----------------------------------------------------------------------------
(* routine_core.py: aggregation *)

RECURSIVE SumScores(_, _)
SumScores(entries, week_start) ==
    IF entries = <<>> THEN 0
    ELSE (IF Head(entries).week_start = week_start THEN Head(entries).score.val ELSE 0)
         + SumScores(Tail(entries), week_start)

\* summarize_by_week keeping the last score of a week instead of adding
summarize_by_week_last_score(entries) ==
    [w \in {entries[i].week_start : i \in 1..Len(entries)} |->
        LET last == CHOOSE i \in 1..Len(entries) :
                        /\ entries[i].week_start = w
                        /\ \A j \in (i + 1)..Len(entries) : entries[j].week_start # w
        IN  entries[last].score.val]

\* summarize_by_week: the dict week_start -> total (hundredths), one key per week met
summarize_by_week(entries) ==
    [w \in {entries[i].week_start : i \in 1..Len(entries)} |-> SumScores(entries, w)]

\* summarize_by_category giving every category every week met, 0 where it has no entry
summarize_by_category_zero_filled(entries) ==
    [c \in {entries[i].category : i \in 1..Len(entries)} |->
        [w \in {entries[i].week_start : i \in 1..Len(entries)} |->
            SumScores(SelectSeq(entries, LAMBDA e : e.category = c), w)]]

\* summarize_by_category leaving out the first entry in file order
summarize_by_category_skip_first(entries) ==
    [c \in {entries[i].category : i \in 2..Len(entries)} |->
        summarize_by_week(SelectSeq(Tail(entries), LAMBDA e : e.category = c))]

\* summarize_by_category: the dict category -> (week_start -> total), a key
\* for each category met and under it a key for each week met with that category
summarize_by_category(entries) ==
    [c \in {entries[i].category : i \in 1..Len(entries)} |->
        summarize_by_week(SelectSeq(entries, LAMBDA e : e.category = c))]

-----------------------------------------------------------------------------
(* The record of the last operation *)

Call(op, week_start, category, days, entries, err, result, score) ==
    [op |-> op, week_start |-> week_start, category |-> category, days |-> days,
     entries |-> entries, err |-> err, result |-> result, score |-> score]

NoCall == Call("none", 0, "", 0, <<>>, NoError, <<>>, NoScore)

\* What a call leaves in the history of store calls; the older of the two
\* calls kept is kept without its entries
HistItem(op, week_start, entries) == [op |-> op, week_start |-> week_start, entries |-> entries]
NoItem == HistItem("none", 0, <<>>)
Shift(h, c) == <<HistItem(h[2].op, h[2].week_start, <<>>), HistItem(c.op, c.week_start, c.entries)>>

-----------------------------------------------------------------------------
(* Inputs *)

MaxNew == 2

\* week_start values handed to the store functions
ApiWeeks == {d \in Dates : d % 7 = 0}

\* (category, count) pairs handed to build_entry when a caller builds newEntries
\* of week w: two counts for the first week, one for the later weeks
ApiInputs(w) == IF w = 0 THEN {<<Exercise, 3>>, <<Exercise, 6>>} ELSE {<<Exercise, 6>>}

\* Entries of week w a caller can build
EntryPool(w) == {build_entry(w, in[1], in[2]).entries[1] : in \in ApiInputs(w)}

SeqsUpTo(S, n) == UNION {[1..k -> S] : k \in 0..n}

\* newEntries all of the week being written
WeekLists(w) == SeqsUpTo(EntryPool(w), MaxNew)

\* any newEntries: entries of any week
AnyLists == SeqsUpTo(UNION {EntryPool(w) : w \in ApiWeeks}, MaxNew)

-----------------------------------------------------------------------------
(* Direct calls of the store functions *)

\* rc.upsert_week_entries(path, week_start, entries)
ApiUpsert(week_start, entries) ==
    LET done == upsert_week_entries(csv, week_start, entries)
    IN  /\ before' = csv
        /\ csv' = done.file
        /\ call' = Call("upsert_week_entries", week_start, "", 0, entries, done.err,
                        <<>>, NoScore)
        /\ hist' = Shift(hist, call)

\* rc.delete_week_entries(path, week_start)
ApiDelete(week_start) ==
    LET done == delete_week_entries(csv, week_start)
    IN  /\ before' = csv
        /\ csv' = done.file
        /\ call' = Call("delete_week_entries", week_start, "", 0, <<>>, done.err,
                        <<>>, NoScore)
        /\ hist' = Shift(hist, call)

\* rc.save_entries(path, rc.load_entries(path)): the entries read are written back
ApiSaveLoaded ==
    LET loaded == load_entries(csv)
    IN  /\ before' = csv
        /\ csv' = IF loaded.err = NoError THEN save_entries(loaded.entries) ELSE csv
        /\ call' = Call("save_loaded", 0, "", 0, <<>>, loaded.err, loaded.entries, NoScore)
        /\ hist' = hist

\* rc.load_entries(path)
ApiLoad ==
    LET loaded == load_entries(csv)
    IN  /\ before' = csv
        /\ csv' = csv
        /\ call' = Call("load_entries", 0, "", 0, <<>>, loaded.err, loaded.entries, NoScore)
        /\ hist' = hist

\* Nothing returned yet, no artifact written, no report opened, no session calling
NoRet ==
    [grade |-> "", totals |-> [w \in {} |-> 0], by_category |-> [c \in {} |-> 0],
     suffix |-> "", used_matplotlib |-> FALSE, message |-> "", plots |-> 0,
     matplotlib |-> FALSE, output |-> "", axis |-> <<>>,
     float_totals |-> [w \in {} |-> 0], float_by_category |-> [c \in {} |-> 0],
     series |-> [totals |-> [w \in {} |-> 0], category_data |-> [c \in {} |-> 0]],
     svg |-> [paths |-> <<>>, legend |-> <<>>, x_labels |-> <<>>, y_labels |-> <<>>]]
NoChart == [exists |-> FALSE, suffix |-> ""]
NoReport == [exists |-> FALSE, rows |-> <<>>, note |-> FALSE, img |-> ""]
NoArt == [chart |-> NoChart, report |-> NoReport]
NoPage ==
    [open |-> FALSE, loaded |-> FALSE, summary |-> FALSE, trend |-> FALSE,
     button_summary |-> FALSE, button_trend |-> FALSE, errors |-> 0]
Sessions == {1, 2}
IdleSession == [pc |-> "idle", week_start |-> 0, entries |-> <<>>, existing |-> <<>>]
NoSess == [of |-> [s \in Sessions |-> IdleSession], log |-> <<>>]

\* What the operations on the store alone leave as it is
StoreOnly == UNCHANGED <<ret, art, page, sess>>

InitRest ==
    /\ ret = NoRet
    /\ art = NoArt
    /\ page = NoPage
    /\ sess = NoSess

InitEmpty ==
    /\ csv = AbsentFile
    /\ before = AbsentFile
    /\ call = NoCall
    /\ hist = <<NoItem, NoItem>>
    /\ nops = 0
    /\ InitRest

\* The store written through upsert_week_entries with newEntries of the week
\* written, and delete_week_entries
NextStore ==
    \/ \E w \in ApiWeeks : \E es \in WeekLists(w) : ApiUpsert(w, es) /\ nops' = nops /\ StoreOnly
    \/ \E w \in ApiWeeks : ApiDelete(w) /\ nops' = nops /\ StoreOnly

SpecStore == InitEmpty /\ [][NextStore]_vars

\* The store functions called with any arguments
ApiStep == nops < MaxApiOps /\ nops' = nops + 1 /\ StoreOnly

NextApi ==
    \/ \E w \in ApiWeeks : \E es \in AnyLists : ApiStep /\ ApiUpsert(w, es)
    \/ \E w \in ApiWeeks : ApiStep /\ ApiDelete(w)

SpecApi == InitEmpty /\ [][NextApi]_vars

-----------------------------------------------------------------------------
(* A file of any content, and one store call on it *)

\* Rows a file can hold: rows written by the program, rows of a category
\* outside the fixed set, rows with a field that does not parse, and a row
\* whose count is outside its category's range
RowPool ==
    {WriteRow(build_entry(0, Exercise, 3).entries[1]),
     WriteRow(build_entry(7, Exercise, 6).entries[1]),
     Row(DateText(7), StrayCategory, IntText(3), PyInt(7)),
     Row(DateText(0), StrayCategory, BadText, PyInt(7)),
     Row(DateText(0), Exercise, BadText, PyInt(7)),
     Row(BadText, Exercise, IntText(3), PyInt(7)),
     Row(DateText(7), StudyHours, IntText(42), BadText),
     Row(DateText(7), Keywords, IntText(9), PyInt(15))}

InitFiles == {AbsentFile} \cup {File(rows) : rows \in SeqsUpTo(RowPool, MaxInitRows)}

InitFile ==
    /\ csv \in InitFiles
    /\ before = csv
    /\ call = NoCall
    /\ hist = <<NoItem, NoItem>>
    /\ nops = 0
    /\ InitRest

\* the one call made
OneCall == call.op = "none" /\ nops' = nops

\* the one call made on the file
FirstCall == OneCall /\ StoreOnly

NextFile ==
    \/ FirstCall /\ ApiLoad
    \/ FirstCall /\ ApiSaveLoaded
    \/ \E w \in ApiWeeks : \E es \in WeekLists(w) : FirstCall /\ ApiUpsert(w, es)
    \/ \E w \in ApiWeeks : FirstCall /\ ApiDelete(w)

SpecFile == InitFile /\ [][NextFile]_vars

-----------------------------------------------------------------------------
(* streamlit_app.py: the handlers of the three buttons that write the store *)

\* The values of the five count widgets (each widget keeps its value in range)
UiCounts == {<<0, 0>>, <<6, StudyHoursMax \div 2>>, <<DayCountMax, StudyHoursMax>>}
InputVectors ==
    {[c \in Categories |-> IF c = StudyHours THEN p[2] ELSE p[1]] : p \in UiCounts}

\* [rc.build_entry(week_start, category, days) for category, days in inputs.items()]
RECURSIVE BuildFrom(_, _, _, _)
BuildFrom(i, week_start, inputs, entries) ==
    IF i > Len(CATEGORY_ORDER) THEN [err |-> NoError, entries |-> entries]
    ELSE LET built == build_entry(week_start, CATEGORY_ORDER[i], inputs[CATEGORY_ORDER[i]])
         IN  IF built.err # NoError THEN [err |-> built.err, entries |-> <<>>]
             ELSE BuildFrom(i + 1, week_start, inputs, entries \o built.entries)

BuildWeek(week_start, inputs) == BuildFrom(1, week_start, inputs, <<>>)

\* The weeks the "edit" select box offers: the week_start values of the
\* entries loaded for the tab
WeekOptions(file) ==
    {load_entries(file).entries[i].week_start : i \in 1..Len(load_entries(file).entries)}

\* The tab with the edit and delete buttons is drawn only when the entries
\* load and there is at least one
EditTabShown(file) == load_entries(file).err = NoError /\ WeekOptions(file) # {}

\* "save" button: week of the selected date, five entries, upsert
Save(selected_date, inputs) ==
    LET week_start == week_start_for_day(selected_date)
        built == BuildWeek(week_start, inputs)
        done == upsert_week_entries(csv, week_start, built.entries)
    IN  /\ before' = csv
        /\ csv' = IF built.err # NoError THEN csv ELSE done.file
        /\ call' = Call("save", week_start, "", 0, built.entries,
                        IF built.err # NoError THEN built.err ELSE done.err, <<>>, NoScore)
        /\ hist' = hist

\* "edit save" button: the selected stored week, five entries, upsert
EditSave(selected_week, inputs) ==
    LET built == BuildWeek(selected_week, inputs)
        done == upsert_week_entries(csv, selected_week, built.entries)
    IN  /\ EditTabShown(csv)
        /\ selected_week \in WeekOptions(csv)
        /\ before' = csv
        /\ csv' = IF built.err # NoError THEN csv ELSE done.file
        /\ call' = Call("edit", selected_week, "", 0, built.entries,
                        IF built.err # NoError THEN built.err ELSE done.err, <<>>, NoScore)
        /\ hist' = hist

\* "delete week" button
DeleteWeek(selected_week) ==
    LET done == delete_week_entries(csv, selected_week)
    IN  /\ EditTabShown(csv)
        /\ selected_week \in WeekOptions(csv)
        /\ before' = csv
        /\ csv' = done.file
        /\ call' = Call("delete", selected_week, "", 0, <<>>, done.err, <<>>, NoScore)
        /\ hist' = hist

-----------------------------------------------------------------------------
(* routine_tracker.py: the add command *)

\* Dates and (category, count) pairs given on the command line
AddDates == {d \in Dates : d % 7 \in {0, 2}}
AddInputs == {<<Exercise, 3>>, <<Exercise, DayCountMax + 1>>, <<StudyHours, StudyHoursMax + 1>>}

\* add_command: validate, build the entry, append it, then report the week's total
add_command(file, week_start, category, days) ==
    LET built == build_entry(week_start, category, days)
        done == append_entry(file, built.entries[1])
        entries == load_entries(done.file).entries
        totals == summarize_by_week(entries)
    IN  IF validate_days(category, days) # NoError
            THEN [err |-> validate_days(category, days), file |-> file, entries |-> <<>>,
                  total |-> NoScore]
        ELSE IF built.err # NoError
            THEN [err |-> built.err, file |-> file, entries |-> <<>>, total |-> NoScore]
        ELSE IF done.err # NoError
            THEN [err |-> done.err, file |-> file, entries |-> built.entries,
                  total |-> NoScore]
        ELSE [err |-> NoError, file |-> done.file, entries |-> built.entries,
              total |-> PyFloat(IF week_start \in DOMAIN totals THEN totals[week_start] ELSE 0)]

AddCommand(week_start, category, days) ==
    LET done == add_command(csv, week_start, category, days)
    IN  /\ before' = csv
        /\ csv' = done.file
        /\ call' = Call("add", week_start, category, days, done.entries, done.err, <<>>,
                        done.total)
        /\ hist' = hist

\* Sessions of the Streamlit UI and of the command line on one store
Init == InitEmpty

Step == nops < MaxOps /\ nops' = nops + 1 /\ StoreOnly

Next ==
    \/ \E d \in Dates : \E inputs \in InputVectors : Step /\ Save(d, inputs)
    \/ \E w \in Dates : \E inputs \in InputVectors : Step /\ EditSave(w, inputs)
    \/ \E w \in Dates : Step /\ DeleteWeek(w)
    \/ \E d \in AddDates : \E in \in AddInputs : Step /\ AddCommand(d, in[1], in[2])

Spec == Init /\ [][Next]_vars

-----------------------------------------------------------------------------
(* app.py: the older Streamlit UI, which keeps the file through pandas *)

\* build_entry of app.py: no validate_days before calculate_score
legacy_build_entry(week_start, category, days) ==
    LET score == calculate_score(category, days)
    IN  IF score.err # NoError THEN [err |-> score.err, entries |-> <<>>]
        ELSE [err |-> NoError,
              entries |-> <<RoutineEntry(week_start, category, days, score.score)>>]

RECURSIVE LegacyBuildFrom(_, _, _, _)
LegacyBuildFrom(i, week_start, inputs, entries) ==
    IF i > Len(CATEGORY_ORDER) THEN [err |-> NoError, entries |-> entries]
    ELSE LET built == legacy_build_entry(week_start, CATEGORY_ORDER[i],
                                         inputs[CATEGORY_ORDER[i]])
         IN  IF built.err # NoError THEN [err |-> built.err, entries |-> <<>>]
             ELSE LegacyBuildFrom(i + 1, week_start, inputs, entries \o built.entries)

LegacyBuildWeek(week_start, inputs) == LegacyBuildFrom(1, week_start, inputs, <<>>)

\* load_dataframe: ensure_csv creates the file, read_csv keeps every row
load_dataframe(file) == file.rows

\* The dtype read_csv gives the score column
ScoreDtype(rows) ==
    IF \E i \in 1..Len(rows) : rows[i].score.form = "bad" THEN "object"
    ELSE IF \E i \in 1..Len(rows) : rows[i].score.form = "float" THEN "float64"
    ELSE "int64"

\* The score column as to_csv writes it: a float column prints every number
\* as a decimal; an int column or a column of texts is written back as read
WriteScores(rows, dtype) ==
    [i \in 1..Len(rows) |->
        IF dtype = "float64" /\ rows[i].score.form = "int"
            THEN [rows[i] EXCEPT !.score = PyFloat(rows[i].score.val)]
        ELSE rows[i]]

\* pd.concat([df, pd.DataFrame(new_rows)]) then save_dataframe: the new rows
\* hold an int and a float score, so their column is float64, and a numeric
\* column of df becomes float64 with it
ConcatAndSave(rows, new_rows) ==
    LET dtype == IF ScoreDtype(rows) = "object" THEN "object" ELSE "float64"
    IN  File(WriteScores(rows, dtype) \o WriteScores(new_rows, "float64"))

\* Order of the category names as strings (the order of the source's names)
CategorySortOrder == <<StudyHours, Meditation, LifeRhythm, Exercise, Keywords, StrayCategory>>
Rank(category) == CHOOSE i \in 1..Len(CategorySortOrder) : CategorySortOrder[i] = category

RowBefore(r1, r2) ==
    \/ r1.week_start.val < r2.week_start.val
    \/ r1.week_start.val = r2.week_start.val /\ Rank(r1.category) < Rank(r2.category)

\* df.sort_values(["week_start", "category"]): a stable sort
RECURSIVE InsertRow(_, _)
InsertRow(sorted, row) ==
    IF sorted = <<>> THEN <<row>>
    ELSE IF RowBefore(row, Head(sorted)) THEN <<row>> \o sorted
    ELSE <<Head(sorted)>> \o InsertRow(Tail(sorted), row)

RECURSIVE SortRows(_)
SortRows(rows) ==
    IF rows = <<>> THEN <<>>
    ELSE InsertRow(SortRows(SubSeq(rows, 1, Len(rows) - 1)), rows[Len(rows)])

\* df_sorted[df_sorted["week_start"] != selected_week]
RECURSIVE RowsOfOtherWeeks(_, _)
RowsOfOtherWeeks(rows, week_text) ==
    IF rows = <<>> THEN <<>>
    ELSE IF Head(rows).week_start # week_text
        THEN <<Head(rows)>> \o RowsOfOtherWeeks(Tail(rows), week_text)
    ELSE RowsOfOtherWeeks(Tail(rows), week_text)

\* The weeks the legacy select box offers
LegacyWeekOptions(file) == {file.rows[i].week_start : i \in 1..Len(file.rows)}

\* "save" button of app.py: the rows built are appended to the frame read
LegacySave(selected_date, inputs) ==
    LET week_start == week_start_for_day(selected_date)
        df == load_dataframe(csv)
        built == LegacyBuildWeek(week_start, inputs)
        new_rows == [i \in 1..Len(built.entries) |-> WriteRow(built.entries[i])]
    IN  /\ before' = csv
        /\ csv' = IF built.err # NoError THEN File(df) ELSE ConcatAndSave(df, new_rows)
        /\ call' = Call("legacy_save", week_start, "", 0, built.entries, built.err, <<>>,
                        NoScore)
        /\ hist' = hist

\* "edit save" button of app.py: the sorted frame without the selected week,
\* then the rows built
LegacyEditSave(selected_week, inputs) ==
    LET df_sorted == SortRows(load_dataframe(csv))
        df_filtered == RowsOfOtherWeeks(df_sorted, selected_week)
        built == LegacyBuildWeek(parse_date(selected_week).val, inputs)
        new_rows == [i \in 1..Len(built.entries) |-> WriteRow(built.entries[i])]
    IN  /\ csv.exists /\ csv.rows # <<>>
        /\ selected_week \in LegacyWeekOptions(csv)
        /\ parse_date(selected_week).err = NoError
        /\ before' = csv
        /\ csv' = IF built.err # NoError THEN csv ELSE ConcatAndSave(df_filtered, new_rows)
        /\ call' = Call("legacy_edit", parse_date(selected_week).val, "", 0, built.entries,
                        built.err, <<>>, NoScore)
        /\ hist' = hist

\* "delete week" button of app.py
LegacyDelete(selected_week) ==
    LET df_sorted == SortRows(load_dataframe(csv))
        df_filtered == RowsOfOtherWeeks(df_sorted, selected_week)
    IN  /\ csv.exists /\ csv.rows # <<>>
        /\ selected_week \in LegacyWeekOptions(csv)
        /\ before' = csv
        /\ csv' = File(WriteScores(df_filtered, ScoreDtype(df_filtered)))
        /\ call' = Call("legacy_delete", selected_week.val, "", 0, <<>>, NoError, <<>>,
                        NoScore)
        /\ hist' = hist

LegacyStep == nops < MaxLegacyOps /\ nops' = nops + 1 /\ StoreOnly

NextLegacy ==
    \/ \E d \in Dates : \E inputs \in InputVectors : LegacyStep /\ LegacySave(d, inputs)
    \/ \E d \in Dates : \E inputs \in InputVectors :
            LegacyStep /\ LegacyEditSave(DateText(d), inputs)
    \/ \E d \in Dates : LegacyStep /\ LegacyDelete(DateText(d))

SpecLegacy == InitEmpty /\ [][NextLegacy]_vars

-----------------------------------------------------------------------------
(* One call of a score function *)

CalcCounts == (-1)..(StudyHoursMax + 1)

CalculateScore(category, days) ==
    /\ call' = Call("calculate_score", 0, category, days, <<>>,
                    calculate_score(category, days).err, <<>>,
                    calculate_score(category, days).score)
    /\ UNCHANGED <<csv, before, hist>>

ValidateDays(category, days) ==
    /\ call' = Call("validate_days", 0, category, days, <<>>, validate_days(category, days),
                    <<>>, NoScore)
    /\ UNCHANGED <<csv, before, hist>>

BuildEntry(week_start, category, days) ==
    /\ call' = Call("build_entry", week_start, category, days, <<>>,
                    build_entry(week_start, category, days).err,
                    build_entry(week_start, category, days).entries, NoScore)
    /\ UNCHANGED <<csv, before, hist>>

LegacyBuildEntry(week_start, category, days) ==
    /\ call' = Call("legacy_build_entry", week_start, category, days, <<>>,
                    legacy_build_entry(week_start, category, days).err,
                    legacy_build_entry(week_start, category, days).entries, NoScore)
    /\ UNCHANGED <<csv, before, hist>>

\* Total scores handed to grade_for_score, in hundredths: from below zero to
\* above the sum of the weights
GradeScores == (0 - 2 * 100)..(101 * 100)

GradeForScore(score) ==
    /\ call' = Call("grade_for_score", 0, "", 0, <<>>, NoError, <<>>, PyFloat(score))
    /\ ret' = [NoRet EXCEPT !.grade = grade_for_score(score)]
    /\ UNCHANGED <<csv, before, hist, art, page, sess>>

NextCalc ==
    \/ OneCall /\ \E s \in GradeScores : GradeForScore(s)
    \/ \E c \in Categories : \E n \in CalcCounts : FirstCall /\ CalculateScore(c, n)
    \/ \E c \in Categories : \E n \in CalcCounts : FirstCall /\ ValidateDays(c, n)
    \/ \E d \in AddDates : \E c \in Categories : \E n \in CalcCounts :
            FirstCall /\ BuildEntry(d, c, n)
    \/ \E d \in AddDates : \E c \in Categories : \E n \in CalcCounts :
            FirstCall /\ LegacyBuildEntry(d, c, n)

SpecCalc == InitEmpty /\ [][NextCalc]_vars

-----------------------------------------------------------------------------
(* Two sessions calling upsert_week_entries on one file.  A session runs   *)
(* the first line of the function (load_entries) in one step and the rest  *)
(* (the filter and save_entries) in a later step; nothing locks the file.  *)

\* The file save_entries leaves when it reads the file again at the save
\* instead of using what the session loaded
session_save_reloading(file, week_start, existing, entries) ==
    save_entries(OtherWeeks(load_entries(file).entries, week_start) \o entries)

\* Lines 2 and 3 of upsert_week_entries: the file left by save_entries
session_save(file, week_start, existing, entries) ==
    save_entries(OtherWeeks(existing, week_start) \o entries)

\* existing = load_entries(path) in session s, called with (week_start, entries)
SessionLoad(s, week_start, entries) ==
    LET loaded == load_entries(csv)
    IN  /\ sess.of[s].pc = "idle"
        /\ sess' = [of |-> [sess.of EXCEPT ![s] =
                               [pc |-> IF loaded.err = NoError THEN "loaded" ELSE "failed",
                                week_start |-> week_start, entries |-> entries,
                                existing |-> loaded.entries]],
                    log |-> Append(sess.log, [s |-> s, step |-> "load"])]
        /\ call' = Call("session_load", week_start, "", 0, entries, loaded.err,
                        loaded.entries, NoScore)
        /\ before' = csv
        /\ UNCHANGED <<csv, hist, nops, ret, art, page>>

\* filtered = [...]; save_entries(path, [*filtered, *entries]) in session s
SessionSave(s) ==
    LET mine == sess.of[s]
    IN  /\ mine.pc = "loaded"
        /\ csv' = session_save(csv, mine.week_start, mine.existing, mine.entries)
        /\ sess' = [of |-> [sess.of EXCEPT ![s].pc = "done"],
                    log |-> Append(sess.log, [s |-> s, step |-> "save"])]
        /\ call' = Call("session_save", mine.week_start, "", 0, mine.entries, NoError,
                        <<>>, NoScore)
        /\ before' = csv
        /\ UNCHANGED <<hist, nops, ret, art, page>>

\* The store when the sessions start: not yet created, or holding a week
SessionFiles == {AbsentFile, save_entries(<<build_entry(0, Exercise, 3).entries[1]>>)}

InitSessions ==
    /\ csv \in SessionFiles
    /\ before = csv
    /\ call = NoCall
    /\ hist = <<NoItem, NoItem>>
    /\ nops = 0
    /\ InitRest

NextSessions ==
    \/ \E s \in Sessions : \E w \in ApiWeeks : \E es \in WeekLists(w) : SessionLoad(s, w, es)
    \/ \E s \in Sessions : SessionSave(s)

SpecSessions == InitSessions /\ [][NextSessions]_vars

-----------------------------------------------------------------------------
(* Python floats.  The chart computes its X positions in binary floating    *)
(* point (IEEE 754 doubles, rounding to nearest, ties to even).  Integers   *)
(* of the model checker are 32 bits wide, so a mantissa is kept as a        *)
(* number of several limbs.                                                 *)

\* Natural numbers of any size: sequences of limbs (digits to the base 2^15),
\* lowest first, the highest not 0; the empty sequence is 0
LimbBits == 15
RECURSIVE Pow2(_)
Pow2(n) == IF n = 0 THEN 1 ELSE 2 * Pow2(n - 1)
Limb == Pow2(LimbBits)

RECURSIVE NatOf(_)
NatOf(n) == IF n = 0 THEN <<>> ELSE <<n % Limb>> \o NatOf(n \div Limb)

RECURSIVE Trim(_)
Trim(a) ==
    IF a = <<>> THEN <<>>
    ELSE IF a[Len(a)] = 0 THEN Trim(SubSeq(a, 1, Len(a) - 1))
    ELSE a

\* a * k + carry, for k and carry below 2^15
RECURSIVE MulSmall(_, _, _)
MulSmall(a, k, carry) ==
    IF a = <<>> THEN NatOf(carry)
    ELSE <<(a[1] * k + carry) % Limb>> \o MulSmall(Tail(a), k, (a[1] * k + carry) \div Limb)

\* a + b + carry
RECURSIVE AddNat(_, _, _)
AddNat(a, b, carry) ==
    IF a = <<>> /\ b = <<>> THEN NatOf(carry)
    ELSE LET x == IF a = <<>> THEN 0 ELSE a[1]
             y == IF b = <<>> THEN 0 ELSE b[1]
         IN  <<(x + y + carry) % Limb>>
                 \o AddNat(IF a = <<>> THEN <<>> ELSE Tail(a),
                           IF b = <<>> THEN <<>> ELSE Tail(b), (x + y + carry) \div Limb)

\* a < b
RECURSIVE LessNat(_, _)
LessNat(a, b) ==
    IF Len(a) # Len(b) THEN Len(a) < Len(b)
    ELSE IF a = <<>> THEN FALSE
    ELSE IF a[Len(a)] # b[Len(b)] THEN a[Len(a)] < b[Len(b)]
    ELSE LessNat(SubSeq(a, 1, Len(a) - 1), SubSeq(b, 1, Len(b) - 1))

\* the number of bits of a limb, and of a number
RECURSIVE LimbLen(_)
LimbLen(x) == IF x = 0 THEN 0 ELSE 1 + LimbLen(x \div 2)
BitLen(a) == IF a = <<>> THEN 0 ELSE (Len(a) - 1) * LimbBits + LimbLen(a[Len(a)])

\* bit j of a, bit 0 the lowest
Bit(a, j) ==
    IF j \div LimbBits + 1 > Len(a) THEN 0
    ELSE (a[j \div LimbBits + 1] \div Pow2(j % LimbBits)) % 2

\* one of the n lowest bits of a is 1
LowBitsSet(a, n) ==
    \/ \E i \in 1..(n \div LimbBits) : i <= Len(a) /\ a[i] # 0
    \/ n \div LimbBits + 1 <= Len(a) /\ a[n \div LimbBits + 1] % Pow2(n % LimbBits) # 0

\* a * 2^n
ShiftLeft(a, n) ==
    IF a = <<>> THEN <<>>
    ELSE [i \in 1..(n \div LimbBits) |-> 0] \o MulSmall(a, Pow2(n % LimbBits), 0)

\* a \div 2^n
ShiftRight(a, n) ==
    LET q == n \div LimbBits
        r == n % LimbBits
        up == SubSeq(a, q + 1, Len(a))
    IN  Trim([i \in 1..Len(up) |->
                 up[i] \div Pow2(r)
                     + (IF i < Len(up) THEN (up[i + 1] % Pow2(r)) * Pow2(LimbBits - r) ELSE 0)])

\* A number of one or two limbs as an integer
IntOf(a) == IF a = <<>> THEN 0 ELSE IF Len(a) = 1 THEN a[1] ELSE a[1] + Limb * a[2]

MantissaBits == 53

\* A double that is not negative: [mantissa, exp] standing for mantissa * 2^exp,
\* the mantissa of exactly 53 bits; zero is [<<>>, 0]
FloatZero == [mantissa |-> <<>>, exp |-> 0]

\* The double nearest to a * 2^exp (a trifle more than that when sticky),
\* a tie going to the even mantissa
RoundToDouble(a, exp, sticky) ==
    LET drop == BitLen(a) - MantissaBits
        kept == ShiftRight(a, drop)
        up == /\ Bit(a, drop - 1) = 1
              /\ (sticky \/ LowBitsSet(a, drop - 1) \/ Bit(kept, 0) = 1)
        more == AddNat(kept, <<1>>, 0)
    IN  IF a = <<>> THEN FloatZero
        ELSE IF drop <= 0 THEN [mantissa |-> ShiftLeft(a, 0 - drop), exp |-> exp + drop]
        ELSE IF ~up THEN [mantissa |-> kept, exp |-> exp + drop]
        ELSE IF BitLen(more) = MantissaBits THEN [mantissa |-> more, exp |-> exp + drop]
        ELSE [mantissa |-> ShiftRight(more, 1), exp |-> exp + drop + 1]

\* float(n) for a small integer n >= 0
FromInt(n) == RoundToDouble(NatOf(n), 0, FALSE)

QuotientLimbs == 5

\* the limbs of floor(r * 2^(15 k) / b) for r < b < 2^16, lowest first, and the remainder
RECURSIVE Divide(_, _, _, _)
Divide(r, b, k, out) ==
    IF k = 0 THEN [limbs |-> out, rem |-> r]
    ELSE Divide((r * Limb) % b, b, k - 1, <<(r * Limb) \div b>> \o out)

\* a / b for two small integers, a >= 0, b > 0
FloatDiv(a, b) ==
    LET frac == Divide(a % b, b, QuotientLimbs, <<>>)
    IN  RoundToDouble(Trim(frac.limbs \o NatOf(a \div b)), 0 - QuotientLimbs * LimbBits,
                      frac.rem # 0)

\* k * x for a small integer k >= 0
FloatMulInt(k, x) == RoundToDouble(Trim(MulSmall(x.mantissa, k, 0)), x.exp, FALSE)

\* x + y
FloatAdd(x, y) ==
    LET e == IF x.exp < y.exp THEN x.exp ELSE y.exp
    IN  IF x.mantissa = <<>> THEN y
        ELSE IF y.mantissa = <<>> THEN x
        ELSE RoundToDouble(AddNat(ShiftLeft(x.mantissa, x.exp - e),
                                  ShiftLeft(y.mantissa, y.exp - e), 0), e, FALSE)

\* a \div d and a % d for d below 2^16: [limbs, rem], from the highest limb down
RECURSIVE DivSmall(_, _, _, _)
DivSmall(a, d, r, out) ==
    IF a = <<>> THEN [limbs |-> out, rem |-> r]
    ELSE DivSmall(SubSeq(a, 1, Len(a) - 1), d, (r * Limb + a[Len(a)]) % d,
                  <<(r * Limb + a[Len(a)]) \div d>> \o out)

\* a - b - borrow for a >= b + borrow
RECURSIVE SubNat(_, _, _)
SubNat(a, b, borrow) ==
    IF a = <<>> THEN <<>>
    ELSE LET y == (IF b = <<>> THEN 0 ELSE b[1]) + borrow
         IN  <<(a[1] - y) % Limb>>
                 \o SubNat(Tail(a), IF b = <<>> THEN <<>> ELSE Tail(b),
                           IF a[1] < y THEN 1 ELSE 0)

\* x / d for a small integer d > 0
FloatDivInt(x, d) ==
    LET q == DivSmall(ShiftLeft(x.mantissa, 2 * LimbBits), d, 0, <<>>)
    IN  RoundToDouble(Trim(q.limbs), x.exp - 2 * LimbBits, q.rem # 0)

\* x - y as [neg, abs]: the sign and the double of the size of the difference
FloatSub(x, y) ==
    LET e == IF x.exp < y.exp THEN x.exp ELSE y.exp
        a == IF x.mantissa = <<>> THEN <<>> ELSE ShiftLeft(x.mantissa, x.exp - e)
        b == IF y.mantissa = <<>> THEN <<>> ELSE ShiftLeft(y.mantissa, y.exp - e)
    IN  IF LessNat(a, b)
            THEN [neg |-> TRUE, abs |-> RoundToDouble(Trim(SubNat(b, a, 0)), e, FALSE)]
        ELSE [neg |-> FALSE, abs |-> RoundToDouble(Trim(SubNat(a, b, 0)), e, FALSE)]

\* x < y
FloatLess(x, y) ==
    LET e == IF x.exp < y.exp THEN x.exp ELSE y.exp
    IN  IF y.mantissa = <<>> THEN FALSE
        ELSE IF x.mantissa = <<>> THEN TRUE
        ELSE LessNat(ShiftLeft(x.mantissa, x.exp - e), ShiftLeft(y.mantissa, y.exp - e))

\* f"{x:.1f}" for x of at least 1/1024: the number of tenths the text shows,
\* the nearest to x, a tie going to the even one
FormatTenths(x) ==
    LET ten == MulSmall(x.mantissa, 10, 0)
        f == 0 - x.exp
        whole == IntOf(ShiftRight(ten, f))
    IN  IF x.mantissa = <<>> THEN 0
        ELSE IF f <= 0 THEN IntOf(ShiftLeft(ten, 0 - f))
        ELSE IF Bit(ten, f - 1) = 1 /\ (LowBitsSet(ten, f - 1) \/ whole % 2 = 1)
            THEN whole + 1
        ELSE whole

\* The double a score is: an int of the tables, or the double nearest to the
\* two-decimal number round() and float() give (scores here are not negative)
FloatOf(score) == FloatDiv(score.val, 100)

\* totals[entry.week_start] += entry.score over the first n entries, from
\* 0.0: the double left under week w
RECURSIVE FloatTotal(_, _, _)
FloatTotal(entries, n, w) ==
    IF n = 0 THEN FloatZero
    ELSE IF entries[n].week_start = w
        THEN FloatAdd(FloatTotal(entries, n - 1, w), FloatOf(entries[n].score))
    ELSE FloatTotal(entries, n - 1, w)

\* summarize_by_week with the totals as the doubles the fold computes
summarize_by_week_floats(entries) ==
    [w \in DOMAIN summarize_by_week(entries) |-> FloatTotal(entries, Len(entries), w)]

\* summarize_by_category with the totals as the doubles the fold computes
summarize_by_category_floats(entries) ==
    [c \in DOMAIN summarize_by_category(entries) |->
        [w \in DOMAIN summarize_by_category(entries)[c] |->
            LET mine == SelectSeq(entries, LAMBDA e : e.category = c)
            IN  FloatTotal(mine, Len(mine), w)]]

-----------------------------------------------------------------------------
(* Charts and the report.  A chart file is [exists, suffix]; the report    *)
(* file is [exists, rows, note, img]: the rows of its summary table, the   *)
(* fallback note being there, and the suffix of the chart it embeds.       *)

NoDataToPlot == "no data to plot"
NoScores == "no scores registered"

\* width, height, padding = 800, 400, 50
Width == 800
Height == 400
Padding == 50

\* the X positions placing each week by its date between the first date and the last
x_positions_by_date(all_dates) ==
    LET n == Len(all_dates)
        span == all_dates[n] - all_dates[1]
        x_step == FloatDiv(Width - 2 * Padding, IF span > 1 THEN span ELSE 1)
    IN  [i \in 1..n |->
            FloatAdd(FromInt(Padding), FloatMulInt(all_dates[i] - all_dates[1], x_step))]

\* x_pos(idx) in a domain of n dates, idx from 0:
\* x_step = (width - 2 * padding) / max(len(all_dates) - 1, 1), then
\* padding + idx * x_step, all in doubles
x_pos(idx, n) ==
    FloatAdd(FromInt(Padding),
             FloatMulInt(idx, FloatDiv(Width - 2 * Padding, IF n - 1 > 1 THEN n - 1 ELSE 1)))

\* x_pos(idx) for every index of the domain all_dates (the sorted dates)
x_positions(all_dates) == [i \in 1..Len(all_dates) |-> x_pos(i - 1, Len(all_dates))]

\* plot_scores_svg writing the file before it looks for dates
plot_scores_svg_write_first(totals, category_data, chart) ==
    IF DOMAIN totals \cup UNION {DOMAIN category_data[c] : c \in DOMAIN category_data} = {}
        THEN [err |-> ValueError, message |-> NoDataToPlot,
              chart |-> [exists |-> TRUE, suffix |-> "svg"]]
    ELSE [err |-> NoError, message |-> "", chart |-> [exists |-> TRUE, suffix |-> "svg"]]

\* plot_scores_svg: [err, message, chart], chart the file at output_path after the call
plot_scores_svg(totals, category_data, chart) ==
    LET all_dates ==
            DOMAIN totals \cup UNION {DOMAIN category_data[c] : c \in DOMAIN category_data}
    IN  IF all_dates = {}
            THEN [err |-> ValueError, message |-> NoDataToPlot, chart |-> chart]
        ELSE [err |-> NoError, message |-> "", chart |-> [exists |-> TRUE, suffix |-> "svg"]]

\* What generate_plot does once it has the two series: the import, then one
\* of the two renderers
RenderPlot(totals, category_data, suffix, matplotlib, chart) ==
    IF ~matplotlib
        THEN LET svg == plot_scores_svg(totals, category_data, chart)
             IN  [err |-> svg.err, message |-> svg.message, chart |-> svg.chart,
                  suffix |-> IF svg.err = NoError THEN "svg" ELSE "",
                  used_matplotlib |-> FALSE]
    ELSE [err |-> NoError, message |-> "", chart |-> [exists |-> TRUE, suffix |-> suffix],
          suffix |-> suffix, used_matplotlib |-> TRUE]

\* generate_plot reporting matplotlib as used whichever renderer ran
generate_plot_always_matplotlib(entries, suffix, matplotlib, chart) ==
    [RenderPlot(summarize_by_week(entries), summarize_by_category(entries), suffix,
                matplotlib, chart) EXCEPT !.used_matplotlib = TRUE]

\* generate_plot of streamlit_app: [err, message, chart, suffix, used_matplotlib]
generate_plot(entries, suffix, matplotlib, chart) ==
    LET totals == summarize_by_week(entries)
        category_data == summarize_by_category(entries)
    IN  IF DOMAIN totals = {} /\ DOMAIN category_data = {}
            THEN [err |-> ValueError, message |-> NoDataToPlot, chart |-> chart,
                  suffix |-> "", used_matplotlib |-> FALSE]
        ELSE RenderPlot(totals, category_data, suffix, matplotlib, chart)

PlotModes == {"both", "per_category", "total_only"}

\* generate_plot of routine_tracker, with its two flags as one mode
tracker_generate_plot(entries, suffix, mode, matplotlib, chart) ==
    LET totals == summarize_by_week(entries)
        none == [w \in {} |-> 0]
    IN  IF DOMAIN totals = {}
            THEN [err |-> ValueError, message |-> NoDataToPlot, chart |-> chart,
                  suffix |-> "", used_matplotlib |-> FALSE]
        ELSE RenderPlot(IF mode = "per_category" THEN none ELSE totals,
                        IF mode = "total_only" THEN none ELSE summarize_by_category(entries),
                        suffix, matplotlib, chart)

\* sorted(keys): the members of a set of dates in ascending order
RECURSIVE Sorted(_)
Sorted(S) ==
    IF S = {} THEN <<>>
    ELSE LET least == CHOOSE x \in S : \A y \in S : x <= y
         IN  <<least>> \o Sorted(S \ {least})

\* y_pos(score): height - padding - (score / 100) * (height - 2 * padding),
\* as [neg, abs]
y_pos(score) ==
    FloatSub(FromInt(Height - Padding),
             FloatMulInt(Height - 2 * Padding, FloatDivInt(score, 100)))

\* f"{v:.1f}" of a number [neg, abs]: the tenths the text shows
SignedTenths(v) == IF v.neg THEN 0 - FormatTenths(v.abs) ELSE FormatTenths(v.abs)

TotalLabel == "total"
TotalColor == "#1f77b4"
palette == <<"#ff7f0e", "#2ca02c", "#d62728", "#9467bd", "#8c564b">>
LegendStep == 120

\* add_series drawing a week the series has no value for at score 0
add_series_zero_filled(label, series, color, all_dates) ==
    IF DOMAIN series = {} THEN <<>>
    ELSE <<[label |-> label, stroke |-> color,
            d |-> [k \in 1..Len(all_dates) |->
                      [cmd |-> IF k = 1 THEN "M" ELSE "L",
                       x |-> FormatTenths(x_pos(k - 1, Len(all_dates))),
                       y |-> SignedTenths(y_pos(IF all_dates[k] \in DOMAIN series
                                                    THEN series[all_dates[k]]
                                                ELSE FloatZero))]]]>>

\* add_series(label, series, color): the path appended to lines, none for a
\* series without a point; a path is [label, stroke, d], d its commands with
\* the texts of x and y in tenths
add_series(label, series, color, all_dates) ==
    LET idx == SelectSeq([i \in 1..Len(all_dates) |-> i],
                         LAMBDA i : all_dates[i] \in DOMAIN series)
    IN  IF idx = <<>> THEN <<>>
        ELSE <<[label |-> label, stroke |-> color,
                d |-> [k \in 1..Len(idx) |->
                          [cmd |-> IF k = 1 THEN "M" ELSE "L",
                           x |-> FormatTenths(x_pos(idx[k] - 1, Len(all_dates))),
                           y |-> SignedTenths(y_pos(series[all_dates[idx[k]]]))]]]>>

\* sorted(category_data.items()): the categories in the order of their names
RECURSIVE SortedCategories(_)
SortedCategories(cs) ==
    IF cs = {} THEN <<>>
    ELSE LET first == CHOOSE c \in cs : \A other \in cs : Rank(c) <= Rank(other)
         IN  <<first>> \o SortedCategories(cs \ {first})

\* for color, (category, series) in zip(palette, sorted(...)): add_series(...),
\* from item i on
RECURSIVE CategoryPaths(_, _, _, _)
CategoryPaths(category_data, sorted, i, all_dates) ==
    IF i > Len(sorted) \/ i > Len(palette) THEN <<>>
    ELSE add_series(sorted[i], category_data[sorted[i]], palette[i], all_dates)
             \o CategoryPaths(category_data, sorted, i + 1, all_dates)

\* y_labels: the labels of the scores 0, 20, ..., 100
YLabels ==
    [k \in 1..6 |->
        [score |-> 20 * (k - 1),
         y |-> SignedTenths(FloatSub(FromInt(Height - Padding),
                                     FloatMulInt(Height - 2 * Padding,
                                                 FloatDiv(20 * (k - 1), 100))))]]

\* svg_document adding the series of the totals after those of the categories
svg_document_total_last(totals, category_data) ==
    LET all_dates ==
            Sorted(DOMAIN totals
                       \cup UNION {DOMAIN category_data[c] : c \in DOMAIN category_data})
        lines == CategoryPaths(category_data, SortedCategories(DOMAIN category_data),
                               1, all_dates)
                     \o add_series(TotalLabel, totals, TotalColor, all_dates)
    IN  [paths |-> lines,
         legend |-> [i \in 1..Len(lines) |->
                        [label |-> lines[i].label, fill |-> lines[i].stroke,
                         x |-> Padding + (i - 1) * LegendStep]],
         x_labels |-> [i \in 1..Len(all_dates) |->
                          [x |-> FormatTenths(x_pos(i - 1, Len(all_dates))),
                           day |-> all_dates[i]]],
         y_labels |-> YLabels]

\* The document plot_scores_svg writes for series that hold a date: the paths,
\* the legend items, and the labels of the two axes
svg_document(totals, category_data) ==
    LET all_dates ==
            Sorted(DOMAIN totals
                       \cup UNION {DOMAIN category_data[c] : c \in DOMAIN category_data})
        lines == add_series(TotalLabel, totals, TotalColor, all_dates)
                     \o CategoryPaths(category_data, SortedCategories(DOMAIN category_data),
                                      1, all_dates)
    IN  [paths |-> lines,
         legend |-> [i \in 1..Len(lines) |->
                        [label |-> lines[i].label, fill |-> lines[i].stroke,
                         x |-> Padding + (i - 1) * LegendStep]],
         x_labels |-> [i \in 1..Len(all_dates) |->
                          [x |-> FormatTenths(x_pos(i - 1, Len(all_dates))),
                           day |-> all_dates[i]]],
         y_labels |-> YLabels]

\* f"{total_score:.1f}": the tenths the text shows, the nearest to the total;
\* for a total half way between two tenths the text is one of the two, the
\* binary value of the float deciding which
FormatOneDecimal(h) == {t \in ((h - 5) \div 10)..((h + 5) \div 10 + 1) : 10 * t - h \in (0 - 5)..5}

\* the table rows in the order the totals were first met, not sorted
report_rows_unsorted(entries, totals) ==
    LET weeks == SelectSeq([i \in 1..Len(entries) |->
                              IF \A j \in 1..(i - 1) :
                                     entries[j].week_start # entries[i].week_start
                                  THEN entries[i].week_start ELSE 0 - 1],
                           LAMBDA w : w >= 0)
    IN  [i \in 1..Len(weeks) |->
            [week_start |-> weeks[i], total |-> FormatOneDecimal(totals[weeks[i]]),
             grade |-> grade_for_score(totals[weeks[i]])]]

\* The rows of the summary table: for each key of totals in sorted order the
\* week label, the total to one decimal and the grade of the total
report_rows(entries, totals) ==
    LET weeks == Sorted(DOMAIN totals)
    IN  [i \in 1..Len(weeks) |->
            [week_start |-> weeks[i], total |-> FormatOneDecimal(totals[weeks[i]]),
             grade |-> grade_for_score(totals[weeks[i]])]]

\* generate_report of streamlit_app: [err, message, art, plots, suffix, used_matplotlib]
generate_report(file, suffix, matplotlib, files) ==
    LET loaded == load_entries(file)
        totals == summarize_by_week(loaded.entries)
        plot == generate_plot(loaded.entries, suffix, matplotlib, files.chart)
    IN  IF loaded.err # NoError
            THEN [err |-> loaded.err, message |-> "", art |-> files, plots |-> 0,
                  suffix |-> "", used_matplotlib |-> FALSE]
        ELSE IF DOMAIN totals = {}
            THEN [err |-> ValueError, message |-> NoScores, art |-> files, plots |-> 0,
                  suffix |-> "", used_matplotlib |-> FALSE]
        ELSE IF plot.err # NoError
            THEN [err |-> plot.err, message |-> plot.message,
                  art |-> [files EXCEPT !.chart = plot.chart], plots |-> 1,
                  suffix |-> "", used_matplotlib |-> FALSE]
        ELSE [err |-> NoError, message |-> "",
              art |-> [chart |-> plot.chart,
                       report |-> [exists |-> TRUE,
                                   rows |-> report_rows(loaded.entries, totals),
                                   note |-> ~plot.used_matplotlib, img |-> plot.suffix]],
              plots |-> 1, suffix |-> plot.suffix, used_matplotlib |-> plot.used_matplotlib]

\* report_command of routine_tracker: with no totals it prints the message
\* and returns; else as generate_report, with its own generate_plot
report_command(file, suffix, matplotlib, files) ==
    LET loaded == load_entries(file)
        totals == summarize_by_week(loaded.entries)
        plot == tracker_generate_plot(loaded.entries, suffix, "both", matplotlib, files.chart)
    IN  IF loaded.err # NoError
            THEN [err |-> loaded.err, message |-> "", art |-> files, plots |-> 0,
                  suffix |-> "", used_matplotlib |-> FALSE]
        ELSE IF DOMAIN totals = {}
            THEN [err |-> NoError, message |-> NoScores, art |-> files, plots |-> 0,
                  suffix |-> "", used_matplotlib |-> FALSE]
        ELSE IF plot.err # NoError
            THEN [err |-> plot.err, message |-> plot.message,
                  art |-> [files EXCEPT !.chart = plot.chart], plots |-> 1,
                  suffix |-> "", used_matplotlib |-> FALSE]
        ELSE [err |-> NoError, message |-> "",
              art |-> [chart |-> plot.chart,
                       report |-> [exists |-> TRUE,
                                   rows |-> report_rows(loaded.entries, totals),
                                   note |-> ~plot.used_matplotlib, img |-> plot.suffix]],
              plots |-> 1, suffix |-> plot.suffix, used_matplotlib |-> plot.used_matplotlib]

\* What a chart or report call leaves in ret
Returned(done, suffix, matplotlib, plots) ==
    [NoRet EXCEPT !.suffix = done.suffix, !.used_matplotlib = done.used_matplotlib,
                  !.message = done.message, !.plots = plots, !.matplotlib = matplotlib,
                  !.output = suffix]

\* The series a renderer was handed and, where plot_scores_svg wrote the chart,
\* the document it wrote
Drawn(r, wrote, totals, category_data) ==
    [r EXCEPT !.series = [totals |-> totals, category_data |-> category_data],
              !.svg = IF wrote THEN svg_document(totals, category_data) ELSE NoRet.svg]

\* The series of generate_plot in doubles; mode as in tracker_generate_plot
FloatSeries(entries, mode) ==
    [totals |-> IF mode = "per_category" THEN [w \in {} |-> 0]
                ELSE summarize_by_week_floats(entries),
     category_data |-> IF mode = "total_only" THEN [c \in {} |-> 0]
                       ELSE summarize_by_category_floats(entries)]

\* ret after a call that may have reached a renderer with the series of mode
Rendered(r, reached, done, entries, mode) ==
    LET given == FloatSeries(entries, mode)
    IN  IF reached
            THEN Drawn(r, done.err = NoError /\ ~done.used_matplotlib,
                       given.totals, given.category_data)
        ELSE r

\* plot_scores_svg(totals, category_data, output_path) on series of the stored entries
PlotScoresSvg(with_totals, with_categories) ==
    LET entries == load_entries(csv).entries
        none == [w \in {} |-> 0]
        mode == IF with_totals THEN IF with_categories THEN "both" ELSE "total_only"
                ELSE "per_category"
        given == IF with_totals \/ with_categories THEN FloatSeries(entries, mode)
                 ELSE NoRet.series
        done == plot_scores_svg(IF with_totals THEN summarize_by_week(entries) ELSE none,
                                IF with_categories THEN summarize_by_category(entries)
                                ELSE none, art.chart)
    IN  /\ call' = Call("plot_scores_svg", 0, "", 0,
                        IF with_totals \/ with_categories THEN entries ELSE <<>>,
                        done.err, <<>>, NoScore)
        /\ ret' = Drawn([NoRet EXCEPT !.message = done.message, !.output = "svg"],
                       done.err = NoError, given.totals, given.category_data)
        /\ art' = [art EXCEPT !.chart = done.chart]
        /\ before' = csv
        /\ UNCHANGED <<csv, hist, page, sess>>

\* generate_plot(entries, output_path) of streamlit_app on the stored entries
GeneratePlot(suffix, matplotlib) ==
    LET entries == load_entries(csv).entries
        done == generate_plot(entries, suffix, matplotlib, art.chart)
    IN  /\ call' = Call("generate_plot", 0, "", 0, entries, done.err, <<>>, NoScore)
        /\ ret' = Rendered(Returned(done, suffix, matplotlib, 0), entries # <<>>, done,
                          entries, "both")
        /\ art' = [art EXCEPT !.chart = done.chart]
        /\ before' = csv
        /\ UNCHANGED <<csv, hist, page, sess>>

\* plot_command of routine_tracker: generate_plot on the stored entries
TrackerGeneratePlot(suffix, mode, matplotlib) ==
    LET entries == load_entries(csv).entries
        done == tracker_generate_plot(entries, suffix, mode, matplotlib, art.chart)
    IN  /\ call' = Call("tracker_generate_plot", 0, "", 0, entries, done.err, <<>>, NoScore)
        /\ ret' = Rendered(Returned(done, suffix, matplotlib, 0), entries # <<>>, done,
                          entries, mode)
        /\ art' = [art EXCEPT !.chart = done.chart]
        /\ before' = csv
        /\ UNCHANGED <<csv, hist, page, sess>>

\* The report button of streamlit_app: generate_report(REPORT_PATH, PLOT_PATH)
GenerateReport(suffix, matplotlib) ==
    LET done == generate_report(csv, suffix, matplotlib, art)
    IN  /\ call' = Call("generate_report", 0, "", 0, load_entries(csv).entries, done.err,
                        <<>>, NoScore)
        /\ ret' = Rendered(Returned(done, suffix, matplotlib, done.plots), done.plots = 1,
                          done, load_entries(csv).entries, "both")
        /\ art' = done.art
        /\ before' = csv
        /\ UNCHANGED <<csv, hist, page, sess>>

\* routine_tracker.py report
ReportCommand(suffix, matplotlib) ==
    LET done == report_command(csv, suffix, matplotlib, art)
    IN  /\ call' = Call("report_command", 0, "", 0, load_entries(csv).entries, done.err,
                        <<>>, NoScore)
        /\ ret' = Rendered(Returned(done, suffix, matplotlib, done.plots), done.plots = 1,
                          done, load_entries(csv).entries, "both")
        /\ art' = done.art
        /\ before' = csv
        /\ UNCHANGED <<csv, hist, page, sess>>

MaxReportRows == 3

\* Entries of the stores reports are made from: two categories at their
\* full count in week 0, one entry at day 2, one entry in week 7
ReportPool ==
    {build_entry(0, LifeRhythm, DayCountMax).entries[1],
     build_entry(0, StudyHours, StudyHoursMax).entries[1],
     build_entry(2, Exercise, 3).entries[1],
     build_entry(7, StudyHours, 1).entries[1]}

ReportStores ==
    {AbsentFile} \cup {save_entries(es) : es \in SeqsUpTo(ReportPool, MaxReportRows)}

InitReport ==
    /\ csv \in ReportStores
    /\ before = csv
    /\ call = NoCall
    /\ hist = <<NoItem, NoItem>>
    /\ nops = 0
    /\ InitRest

Suffixes == {"png", "svg"}

NextReport ==
    \/ \E t \in BOOLEAN : \E c \in BOOLEAN : OneCall /\ PlotScoresSvg(t, c)
    \/ \E x \in Suffixes : \E m \in BOOLEAN : OneCall /\ GeneratePlot(x, m)
    \/ \E x \in Suffixes : \E mode \in PlotModes : \E m \in BOOLEAN :
            OneCall /\ TrackerGeneratePlot(x, mode, m)
    \/ \E x \in Suffixes : \E m \in BOOLEAN : OneCall /\ GenerateReport(x, m)
    \/ \E x \in Suffixes : \E m \in BOOLEAN : OneCall /\ ReportCommand(x, m)

SpecReport == InitReport /\ [][NextReport]_vars

\* The Streamlit UI alone on one store: the three buttons that write it and
\* the report button, which is drawn when the entries load and there is one
ReportButton(suffix, matplotlib) ==
    /\ EditTabShown(csv)
    /\ nops' = nops
    /\ GenerateReport(suffix, matplotlib)

\* Dates picked in the date input: the Monday and the Thursday of each week
PickedDates == {d \in Dates : d % 7 \in {0, 3}}

\* PLOT_PATH = Path("plots/score_trend.png")
PlotPathSuffix == "png"

NextUi ==
    \/ \E d \in PickedDates : \E inputs \in InputVectors : Step /\ Save(d, inputs)
    \/ \E inputs \in InputVectors : Step /\ \E w \in WeekOptions(csv) : EditSave(w, inputs)
    \/ Step /\ \E w \in WeekOptions(csv) : DeleteWeek(w)
    \/ \E m \in BOOLEAN : ReportButton(PlotPathSuffix, m)

SpecUi == InitEmpty /\ [][NextUi]_vars

-----------------------------------------------------------------------------
(* The report document in a browser.  The f-string that holds the document *)
(* has {id} in the selector of showTab as a replacement field, so the text *)
(* written is [data-tab="$<built-in function id>"], which no element       *)
(* matches: querySelector gives null and showTab ends in a TypeError after *)
(* its first three statements.                                             *)

MaxClicks == 3

Panels == {"summary", "trend"}

\* showTab(id) run to its end or to its error: the page it leaves
showTab(p, id) ==
    [p EXCEPT !.summary = (id = "summary"), !.trend = (id = "trend"),
              !.button_summary = FALSE, !.button_trend = FALSE,
              !.errors = IF @ < MaxClicks + 1 THEN @ + 1 ELSE @]

\* The browser has parsed the document: the elements carry the classes of the markup
OpenReport ==
    /\ art.report.exists
    /\ ~page.open
    /\ page' = [NoPage EXCEPT !.open = TRUE]
    /\ UNCHANGED <<csv, before, call, hist, nops, ret, art, sess>>

\* window.addEventListener('DOMContentLoaded', () => showTab('summary'))
DOMContentLoaded ==
    /\ page.open
    /\ ~page.loaded
    /\ page' = [showTab(page, "summary") EXCEPT !.loaded = TRUE]
    /\ UNCHANGED <<csv, before, call, hist, nops, ret, art, sess>>

\* onclick="showTab('summary')" and onclick="showTab('trend')" of the two buttons
ClickTab(id) ==
    /\ page.open
    /\ nops < MaxClicks
    /\ nops' = nops + 1
    /\ page' = showTab(page, id)
    /\ UNCHANGED <<csv, before, call, hist, ret, art, sess>>

NextPage ==
    \/ \E x \in Suffixes : \E m \in BOOLEAN : OneCall /\ GenerateReport(x, m)
    \/ OpenReport
    \/ DOMContentLoaded
    \/ \E id \in Panels : ClickTab(id)

SpecPage == InitReport /\ [][NextPage]_vars

-----------------------------------------------------------------------------
(* One call of an aggregation function on a list of entries *)

MaxAgg == 3

\* Entries handed to the aggregation functions: two weeks, three categories,
\* and two counts of one of them
AggPool ==
    {build_entry(w, in[1], in[2]).entries[1] :
        w \in ApiWeeks, in \in {<<Exercise, DayCountMax>>, <<Exercise, 6>>,
                                <<Keywords, DayCountMax>>, <<StudyHours, 1>>}}

AggLists == SeqsUpTo(AggPool, MaxAgg)

SummarizeByWeek(entries) ==
    /\ call' = Call("summarize_by_week", 0, "", 0, entries, NoError, <<>>, NoScore)
    /\ ret' = [NoRet EXCEPT !.totals = summarize_by_week(entries)]
    /\ UNCHANGED <<csv, before, hist, art, page, sess>>

SummarizeByCategory(entries) ==
    /\ call' = Call("summarize_by_category", 0, "", 0, entries, NoError, <<>>, NoScore)
    /\ ret' = [NoRet EXCEPT !.by_category = summarize_by_category(entries)]
    /\ UNCHANGED <<csv, before, hist, art, page, sess>>

\* Both folds on one list, as generate_plot calls them
SummarizeBoth(entries) ==
    /\ call' = Call("summarize_both", 0, "", 0, entries, NoError, <<>>, NoScore)
    /\ ret' = [NoRet EXCEPT !.totals = summarize_by_week(entries),
                            !.by_category = summarize_by_category(entries),
                            !.float_totals = summarize_by_week_floats(entries),
                            !.float_by_category = summarize_by_category_floats(entries)]
    /\ UNCHANGED <<csv, before, hist, art, page, sess>>

NextAgg ==
    \/ \E es \in AggLists : OneCall /\ SummarizeByWeek(es)
    \/ \E es \in AggLists : OneCall /\ SummarizeByCategory(es)
    \/ \E es \in AggLists : OneCall /\ SummarizeBoth(es)

SpecAgg == InitEmpty /\ [][NextAgg]_vars

-----------------------------------------------------------------------------
(* The X axis of the chart for a domain of any length *)

MaxDomain == 78

\* The sorted dates of a domain of n weeks: every week, every second week,
\* or every week but the one after the first
DomainShapes == {"weekly", "fortnightly", "gap"}
DomainOf(n, shape) ==
    [k \in 1..n |->
        IF shape = "weekly" THEN 7 * (k - 1)
        ELSE IF shape = "fortnightly" THEN 14 * (k - 1)
        ELSE IF k = 1 THEN 0 ELSE 7 * k]

\* x_step and x_pos of plot_scores_svg for the domain all_dates
XPositions(all_dates) ==
    /\ call' = Call("x_pos", 0, "", 0, <<>>, NoError, all_dates, NoScore)
    /\ ret' = [NoRet EXCEPT !.axis = x_positions(all_dates)]
    /\ UNCHANGED <<csv, before, hist, art, page, sess>>

NextAxis ==
    \E n \in 1..MaxDomain : \E shape \in DomainShapes : OneCall /\ XPositions(DomainOf(n, shape))

SpecAxis == InitEmpty /\ [][NextAxis]_vars

-----------------------------------------------------------------------------
(* Properties *)

\* An entry or a row as a value: the number a score text stands for, whichever
\* way it is written
EntryValue(e) ==
    [week_start |-> e.week_start, category |-> e.category, days |-> e.days,
     score |-> e.score.val]
Values(es) == [i \in 1..Len(es) |-> EntryValue(es[i])]

InWeek(es, w) == SelectSeq(es, LAMBDA e : e.week_start = w)
NotInWeek(es, w) == SelectSeq(es, LAMBDA e : e.week_start # w)

\* The rows of a file, and those of week w
RowValues(file) ==
    [i \in 1..Len(file.rows) |->
        EntryValue([file.rows[i] EXCEPT !.week_start = IF @.form = "ymd" THEN @.val ELSE -1,
                                        !.days = @.val])]
RowsOfWeek(file, w) == InWeek(RowValues(file), w)
RowsNotOfWeek(file, w) == NotInWeek(RowValues(file), w)

\* No (week_start, category) pair occurs twice
OnePerPair(es) ==
    \A i, j \in 1..Len(es) :
        i # j => ~(es[i].week_start = es[j].week_start /\ es[i].category = es[j].category)

\* C1: starting from an empty store, after any upsert_week_entries and
\* delete_week_entries calls with any week_start and any newEntries, the store
\* holds at most one entry per (week_start, category) pair.
C1_OneEntryPerPair == OnePerPair(RowValues(csv))

\* The last three store calls were upsert(A, EA), upsert(B, EB), upsert(A, EA')
\* for distinct weeks A and B
ReplaceCase ==
    /\ hist[1].op = "upsert_week_entries"
    /\ hist[2].op = "upsert_week_entries"
    /\ call.op = "upsert_week_entries"
    /\ hist[1].week_start = call.week_start
    /\ hist[2].week_start # call.week_start

C3_OtherWeeksUntouched ==
    call.op = "upsert_week_entries" =>
        \A w \in Dates : w # call.week_start => RowsOfWeek(csv, w) = RowsOfWeek(before, w)

C5_FullWeekReplacement ==
    (call.op \in {"save", "edit", "legacy_save", "legacy_edit"} /\ call.err = NoError) =>
        /\ Len(call.entries) = Len(CATEGORY_ORDER)
        /\ RowsOfWeek(csv, call.week_start) = Values(call.entries)

\* C6: every entry in the store has a week_start that is a Monday.
C6_WeekStartIsMonday ==
    \A i \in 1..Len(csv.rows) : RowValues(csv)[i].week_start % 7 = 0

\* score equals calculate_score(category, days)
ScoreIsComputed(e) ==
    /\ calculate_score(e.category, e.days).err = NoError
    /\ e.score = calculate_score(e.category, e.days).score.val

\* C7: every entry built by build_entry, and every entry held in the store
\* after any sequence of saves, edits, deletes and CLI adds from an empty
\* store, has score = calculate_score(category, days).
C7_ScoreIsComputed ==
    /\ \A i \in 1..Len(csv.rows) : ScoreIsComputed(RowValues(csv)[i])
    /\ \A i \in 1..Len(call.entries) : ScoreIsComputed(EntryValue(call.entries[i]))

\* C7 witness: an add appended its entry to a store that already held a week
C7_Witness ==
    /\ call.op = "add"
    /\ call.err = NoError
    /\ Len(csv.rows) > Len(CATEGORY_ORDER)
    /\ \E i \in 1..Len(csv.rows) : RowValues(csv)[i].score > 0

\* A count outside its category's valid range
OutOfRange(category, days) ==
    \/ days < 0
    \/ days > (IF category = StudyHours THEN StudyHoursMax ELSE DayCountMax)

\* C8: calculate_score fails for every count outside its category's range; it
\* never returns a score for such a count.
C8_OutOfRangeFails ==
    (call.op = "calculate_score" /\ OutOfRange(call.category, call.days)) =>
        call.err # NoError

\* C9: build_entry (of either UI variant) and the add command, given a count
\* outside its category's range, raise an error, build no entry and leave the
\* file as it was.
C9_OutOfRangeRejected ==
    (/\ call.op \in {"build_entry", "legacy_build_entry", "add"}
     /\ OutOfRange(call.category, call.days)) =>
        /\ call.err # NoError
        /\ call.result = <<>>
        /\ call.entries = <<>>
        /\ csv = before

\* A row with a count, a date or a score that does not parse
Unparsable(row) ==
    \/ ParseInt(row.days).err # NoError
    \/ parse_date(row.week_start).err # NoError
    \/ ParseFloat(row.score).err # NoError

KnownRows(file) == SelectSeq(file.rows, LAMBDA row : row.category \in Categories)

\* C10 as stated: load_entries fails as a whole whenever any row has an
\* unparsable count, score or date, whatever the row's category and position.
C10_AnyBadRowFailsLoad ==
    (/\ call.op = "load_entries"
     /\ \E i \in 1..Len(before.rows) : Unparsable(before.rows[i])) =>
        call.err # NoError /\ call.result = <<>>

\* C10 as amended: load_entries fails as a whole whenever a row whose category
\* is in the fixed set has an unparsable count, score or date, whatever its
\* position; when it succeeds it returns one entry for every row of a category
\* in the fixed set, in file order.
C10_BadKnownRowFailsLoad ==
    call.op = "load_entries" =>
        /\ (\E i \in 1..Len(KnownRows(before)) : Unparsable(KnownRows(before)[i]))
               => (call.err = ValueError /\ call.result = <<>>)
        /\ call.err = NoError
               => Values(call.result) = RowValues(File(KnownRows(before)))

\* C10 witness: the load failed on a file whose first row parses and whose
\* second row, of a category in the fixed set, does not
C10_Witness ==
    /\ call.op = "load_entries"
    /\ call.err = ValueError
    /\ Len(before.rows) = 2
    /\ ~Unparsable(before.rows[1]) /\ before.rows[1].category \in Categories
    /\ Unparsable(before.rows[2]) /\ before.rows[2].category \in Categories

\* C11: save_entries(path, load_entries(path)) on a file load_entries accepts
\* leaves the rows under the header as they were: the same texts, in the same
\* order, none dropped.
C11_RoundTrip ==
    call.op = "save_loaded" /\ call.err = NoError => csv.rows = before.rows

\* C12: grade_for_score(s) is SS from 95, S from 90, A from 85, B from 75,
\* C from 65, D from 55 and the caution grade below 55, negative scores
\* included; a score on a boundary takes the higher grade.
C12_GradeOfScore ==
    call.op = "grade_for_score" =>
        LET s == call.score.val
        IN  /\ call.err = NoError
            /\ ret.grade = "SS" <=> s >= 9500
            /\ ret.grade = "S" <=> s >= 9000 /\ s < 9500
            /\ ret.grade = "A" <=> s >= 8500 /\ s < 9000
            /\ ret.grade = "B" <=> s >= 7500 /\ s < 8500
            /\ ret.grade = "C" <=> s >= 6500 /\ s < 7500
            /\ ret.grade = "D" <=> s >= 5500 /\ s < 6500
            /\ ret.grade = "caution" <=> s < 5500

\* C12 witness: 94.99 was graded S (one hundredth below the SS boundary)
C12_Witness ==
    call.op = "grade_for_score" /\ call.score.val = 9499 /\ ret.grade = "S"

\* The tables of the four day-counted categories as the source lists them,
\* count -> points in hundredths
ReferenceTable(category) ==
    IF category = LifeRhythm
        THEN (7 :> 3000) @@ (6 :> 2700) @@ (5 :> 2500) @@ (4 :> 1500) @@ (3 :> 1000)
             @@ (2 :> 500) @@ (1 :> 300) @@ (0 :> 0)
    ELSE IF category = Meditation
        THEN (7 :> 1500) @@ (6 :> 1400) @@ (5 :> 1300) @@ (4 :> 1000) @@ (3 :> 800)
             @@ (2 :> 600) @@ (1 :> 300) @@ (0 :> 0)
    ELSE IF category = Exercise
        THEN (7 :> 1000) @@ (6 :> 950) @@ (5 :> 900) @@ (4 :> 800) @@ (3 :> 700)
             @@ (2 :> 400) @@ (1 :> 200) @@ (0 :> 0)
    ELSE (7 :> 1500) @@ (6 :> 1400) @@ (5 :> 1200) @@ (4 :> 1000) @@ (3 :> 800)
         @@ (2 :> 400) @@ (1 :> 200) @@ (0 :> 0)

\* h hundredths is count/84*30 rounded to two decimals: the nearest hundredth
\* (250*count/7 is never half way between two hundredths)
IsHourScore(h, count) ==
    /\ 2 * (84 * h - 3000 * count) < 84
    /\ 2 * (3000 * count - 84 * h) < 84

\* C13: for every valid (category, count) calculate_score returns without
\* error the reference value: count/84*30 rounded to two decimals for study
\* hours (0 -> 0.0, 42 -> 15.0, 84 -> 30.0) and the table value for the exact
\* count 0..7 of the four day-counted categories.
C13_ReferenceScore ==
    call.op = "calculate_score" /\ ~OutOfRange(call.category, call.days) =>
        /\ call.err = NoError
        /\ call.category = StudyHours =>
               /\ IsHourScore(call.score.val, call.days)
               /\ call.days = 0 => call.score.val = 0
               /\ call.days = 42 => call.score.val = 1500
               /\ call.days = 84 => call.score.val = 3000
        /\ call.category # StudyHours =>
               call.score.val = ReferenceTable(call.category)[call.days]

\* C13 witness: calculate_score of study hours 1 returned 0.36 (0.357 rounded up)
C13_Witness ==
    /\ call.op = "calculate_score" /\ call.category = StudyHours /\ call.days = 1
    /\ call.err = NoError /\ call.score.val = 36

\* The sum of the scores of the first n entries of es that have week w and a
\* category in cs
RECURSIVE ScoreSumTo(_, _, _, _)
ScoreSumTo(es, n, w, cs) ==
    IF n = 0 THEN 0
    ELSE ScoreSumTo(es, n - 1, w, cs)
         + (IF es[n].week_start = w /\ es[n].category \in cs THEN es[n].score.val ELSE 0)

WeeksOf(es, cs) == {es[i].week_start : i \in {j \in 1..Len(es) : es[j].category \in cs}}

\* C14: summarize_by_week(entries) has exactly the distinct week_start values
\* of entries as keys (none for no entries) and under each the sum of the
\* scores of all entries of that week; 10 and 15 in one week give 25.
C14_TotalsByWeek ==
    call.op = "summarize_by_week" =>
        /\ DOMAIN ret.totals = WeeksOf(call.entries, Categories)
        /\ call.entries = <<>> => DOMAIN ret.totals = {}
        /\ \A w \in DOMAIN ret.totals :
               ret.totals[w] = ScoreSumTo(call.entries, Len(call.entries), w, Categories)
        /\ /\ Len(call.entries) = 2
           /\ call.entries[1].week_start = call.entries[2].week_start
           /\ call.entries[1].score.val = 1000 /\ call.entries[2].score.val = 1500
           => ret.totals[call.entries[1].week_start] = 2500

\* C14 witness: scores 10 and 15 of one week were summed to 25, next to an
\* entry of another week
C14_Witness ==
    /\ call.op = "summarize_by_week"
    /\ Len(call.entries) = 3
    /\ call.entries[1].week_start = 0 /\ call.entries[1].score.val = 1000
    /\ call.entries[2].week_start = 7
    /\ call.entries[3].week_start = 0 /\ call.entries[3].score.val = 1500
    /\ DOMAIN ret.totals = {0, 7} /\ ret.totals[0] = 2500

\* C15: summarize_by_category(entries) has exactly the categories of entries
\* as keys; under a category, exactly the weeks in which that category has an
\* entry, each with the sum of that category's scores in that week.
C15_TotalsByCategory ==
    call.op = "summarize_by_category" =>
        /\ DOMAIN ret.by_category = {call.entries[i].category : i \in 1..Len(call.entries)}
        /\ \A c \in DOMAIN ret.by_category :
               /\ DOMAIN ret.by_category[c] = WeeksOf(call.entries, {c})
               /\ \A w \in DOMAIN ret.by_category[c] :
                      ret.by_category[c][w]
                          = ScoreSumTo(call.entries, Len(call.entries), w, {c})

\* C15 witness: week 7 has an entry of keywords only and is no key under
\* exercise, which has two entries in week 0
C15_Witness ==
    /\ call.op = "summarize_by_category"
    /\ WeeksOf(call.entries, {Keywords}) = {7}
    /\ Len(call.entries) = 3
    /\ DOMAIN ret.by_category = {Exercise, Keywords}
    /\ DOMAIN ret.by_category[Exercise] = {0}
    /\ ret.by_category[Exercise][0] = 1950

\* Both sessions loaded before either saved, both have saved, and they wrote
\* different weeks
BothLoadedFirst ==
    /\ Len(sess.log) = 4
    /\ sess.log[1].step = "load" /\ sess.log[2].step = "load"
    /\ sess.of[1].week_start # sess.of[2].week_start

\* C16: when two sessions run upsert_week_entries for different weeks and both
\* load before either saves, both calls complete without error and the store
\* holds what the last saver loaded and wrote: the week of the first saver is
\* as it was before the two calls, so it is missing when it was not stored
\* before.
C16_LostUpdate ==
    BothLoadedFirst =>
        LET first == sess.of[sess.log[3].s]
            last == sess.of[sess.log[4].s]
        IN  /\ first.pc = "done" /\ last.pc = "done"
            /\ RowValues(csv)
                   = Values(NotInWeek(last.existing, last.week_start) \o last.entries)
            /\ RowsOfWeek(csv, first.week_start)
                   = Values(InWeek(first.existing, first.week_start))
            /\ InWeek(first.existing, first.week_start) = <<>>
                   => RowsOfWeek(csv, first.week_start) = <<>>

\* C16 witness: both calls completed, the first saver wrote entries of its
\* week, and the store holds no row of that week
C16_Witness ==
    /\ BothLoadedFirst
    /\ sess.of[1].pc = "done" /\ sess.of[2].pc = "done"
    /\ sess.of[sess.log[3].s].entries # <<>>
    /\ RowsOfWeek(csv, sess.of[sess.log[3].s].week_start) = <<>>

\* The chart and report functions the no-data claim names, in both modules
NoDataOps == {"plot_scores_svg", "generate_plot", "tracker_generate_plot", "generate_report"}

\* C17: with no entries (no week in the totals nor in any category series)
\* plot_scores_svg, generate_plot and generate_report each raise the no-data
\* error and write neither a chart file nor a report file; generate_report
\* raises before it asks for a chart.
C17_NoData ==
    call.op \in NoDataOps /\ call.entries = <<>> =>
        /\ call.err = ValueError
        /\ ret.message \in {NoDataToPlot, NoScores}
        /\ art = NoArt
        /\ call.op = "generate_report" => ret.plots = 0 /\ ret.message = NoScores

\* C17 witness: generate_report was called on a store that exists and holds
\* no entry, and raised
C17_Witness ==
    /\ call.op = "generate_report" /\ call.entries = <<>> /\ call.err = ValueError
    /\ csv.exists /\ art = NoArt

\* C18: generate_plot returns used_matplotlib = False together with an .svg
\* path exactly when matplotlib cannot be imported, and a report that was
\* written holds the fallback note exactly when the flag is False, its chart
\* then being the .svg file.
C18_FallbackNotice ==
    /\ call.op \in {"generate_plot", "tracker_generate_plot"} /\ call.err = NoError =>
           /\ (~ret.used_matplotlib /\ ret.suffix = "svg") <=> ~ret.matplotlib
           /\ ret.used_matplotlib <=> ret.matplotlib
           /\ art.chart = [exists |-> TRUE,
                           suffix |-> IF ret.matplotlib THEN ret.output ELSE "svg"]
    /\ call.op \in {"generate_report", "report_command"} /\ art.report.exists =>
           /\ art.report.note <=> ~ret.used_matplotlib
           /\ ret.used_matplotlib <=> ret.matplotlib
           /\ art.report.note => art.report.img = "svg" /\ art.chart.suffix = "svg"

\* C18 witness: a report was written without matplotlib for a .png chart
\* path; it holds the note and embeds the .svg chart
C18_Witness ==
    /\ call.op = "generate_report" /\ art.report.exists
    /\ ~ret.matplotlib /\ ret.output = "png"
    /\ art.report.note /\ art.report.img = "svg"

\* C19: the summary table of a written report has one row per distinct
\* week_start of the stored entries, in ascending order of week_start, each
\* with the week's total from summarize_by_week, shown to one decimal, and
\* the grade grade_for_score gives for that total.
C19_SummaryTable ==
    call.op \in {"generate_report", "report_command"} /\ art.report.exists =>
        LET rows == art.report.rows
            totals == summarize_by_week(call.entries)
        IN  /\ {rows[i].week_start : i \in 1..Len(rows)} = WeeksOf(call.entries, Categories)
            /\ Len(rows) = Cardinality(WeeksOf(call.entries, Categories))
            /\ \A i \in 1..Len(rows) : \A j \in 1..Len(rows) :
                   i < j => rows[i].week_start < rows[j].week_start
            /\ \A i \in 1..Len(rows) :
                   LET total == ScoreSumTo(call.entries, Len(call.entries),
                                           rows[i].week_start, Categories)
                   IN  /\ total = totals[rows[i].week_start]
                       /\ rows[i].total # {}
                       /\ \A t \in rows[i].total : 10 * t - total \in (0 - 5)..5
                       /\ rows[i].grade = grade_for_score(total)

\* C19 witness: the store holds an entry of week 7 before two of week 0; the
\* table lists week 0 (60.0, grade D) and then week 7 (0.36, shown as 0.4)
C19_Witness ==
    /\ call.op = "generate_report" /\ art.report.exists
    /\ Len(call.entries) = 3 /\ call.entries[1].week_start = 7
    /\ Len(art.report.rows) = 2
    /\ art.report.rows[1] = [week_start |-> 0, total |-> {600}, grade |-> "D"]
    /\ art.report.rows[2] = [week_start |-> 7, total |-> {4}, grade |-> "caution"]

\* C20: in an opened report exactly one of the panels summary and trend has
\* the active class, from the moment the document is open and after any
\* clicks on the two buttons; until a button is clicked it is the summary panel.
C20_OnePanelVisible ==
    page.open =>
        /\ page.summary # page.trend
        /\ nops = 0 => page.summary

\* The rows of the pair (week_start, category) among row values
RowsOfPair(rows, w, c) == SelectSeq(rows, LAMBDA e : e.week_start = w /\ e.category = c)

\* The sum of the scores of the first n row values that have week w
RECURSIVE RowScoreSum(_, _, _)
RowScoreSum(rows, n, w) ==
    IF n = 0 THEN 0
    ELSE RowScoreSum(rows, n - 1, w) + (IF rows[n].week_start = w THEN rows[n].score ELSE 0)

\* C21: the add command appends: a successful add leaves one more row of its
\* (week_start, category) pair than the store held, so a second add of the
\* same pair leaves two rows of it, and the weekly total it reports is the sum
\* of the scores of all rows of the week, both rows of the pair included.
C21_AppendDuplicates ==
    call.op = "add" /\ call.err = NoError =>
        LET w == call.week_start
            c == call.category
        IN  /\ Len(RowsOfPair(RowValues(csv), w, c))
                   = Len(RowsOfPair(RowValues(before), w, c)) + 1
            /\ RowsOfPair(RowValues(before), w, c) # <<>>
                   => Len(RowsOfPair(RowValues(csv), w, c)) >= 2
            /\ call.score.val = RowScoreSum(RowValues(csv), Len(csv.rows), w)

\* C21 witness: the second of two adds of exercise 3 for week 0 on an empty
\* store left two rows of the pair and reported 14.0, twice the score 7
C21_Witness ==
    /\ call.op = "add" /\ call.err = NoError /\ nops = 2
    /\ call.week_start = 0 /\ call.category = Exercise
    /\ Len(before.rows) = 1
    /\ Len(RowsOfPair(RowValues(csv), 0, Exercise)) = 2
    /\ Len(csv.rows) = 2
    /\ call.score.val = 1400

\* C22: every entry load_entries returns has a category of the fixed set and
\* a count within that category's range (0..7 for the day-counted categories,
\* 0..84 for study hours), so no out-of-range or negative count reaches the
\* aggregation functions.
C22_LoadedInRange ==
    call.op = "load_entries" /\ call.err = NoError =>
        \A i \in 1..Len(call.result) :
            /\ call.result[i].category \in Categories
            /\ ~OutOfRange(call.result[i].category, call.result[i].days)

\* C27: when a stored row of a known category does not parse, so that
\* load_entries fails, upsert_week_entries and delete_week_entries raise that
\* error before save_entries is reached and leave the file exactly as it was:
\* no row removed, none of newEntries written.
C27_FailedLoadKeepsFile ==
    (/\ call.op \in {"upsert_week_entries", "delete_week_entries"}
     /\ \E i \in 1..Len(KnownRows(before)) : Unparsable(KnownRows(before)[i])) =>
        /\ call.err = ValueError
        /\ csv = before

\* C27 witness: an upsert of week 0 with an entry to write raised on a file
\* whose first row is a row of week 0 and whose second row does not parse;
\* both rows are still there and nothing was added
C27_Witness ==
    /\ call.op = "upsert_week_entries" /\ call.week_start = 0 /\ call.entries # <<>>
    /\ call.err = ValueError
    /\ Len(before.rows) = 2
    /\ ~Unparsable(before.rows[1]) /\ before.rows[1].week_start = DateText(0)
    /\ before.rows[1].category \in Categories
    /\ Unparsable(before.rows[2]) /\ before.rows[2].category \in Categories
    /\ csv.rows = before.rows

\* The categories of a set in every order
Orders(cs) ==
    {o \in [1..Cardinality(cs) -> cs] : \A i, j \in 1..Cardinality(cs) : i # j => o[i] # o[j]}

\* sum(by_category[c].get(w, 0) for c in order): the double the additions
\* give, made in the order of the first n categories of order
RECURSIVE FloatSumOver(_, _, _, _)
FloatSumOver(by_category, order, n, w) ==
    IF n = 0 THEN FloatZero
    ELSE IF w \in DOMAIN by_category[order[n]]
        THEN FloatAdd(FloatSumOver(by_category, order, n - 1, w), by_category[order[n]][w])
    ELSE FloatSumOver(by_category, order, n - 1, w)

\* The sum over the categories cs of the exact totals the category has for week w
RECURSIVE SumOverCategories(_, _, _)
SumOverCategories(by_category, cs, w) ==
    IF cs = {} THEN 0
    ELSE LET c == CHOOSE x \in cs : TRUE
         IN  (IF w \in DOMAIN by_category[c] THEN by_category[c][w] ELSE 0)
             + SumOverCategories(by_category, cs \ {c}, w)

\* The double x is h hundredths when rounded to two decimals: it lies strictly
\* between (2h - 1)/200 and (2h + 1)/200
IsHundredths(x, h) ==
    IF x.mantissa = <<>> THEN h = 0
    ELSE /\ h >= 1
         /\ LessNat(MulSmall(x.mantissa, 200, 0), ShiftLeft(NatOf(2 * h + 1), 0 - x.exp))
         /\ LessNat(ShiftLeft(NatOf(2 * h - 1), 0 - x.exp), MulSmall(x.mantissa, 200, 0))

\* The weeks listed under the categories are together the weeks of the totals
SameWeeks ==
    UNION {DOMAIN ret.by_category[c] : c \in DOMAIN ret.by_category} = DOMAIN ret.totals

\* C28 as stated: for every list of entries and every week w the totals of w
\* under all categories of summarize_by_category add up to the total
\* summarize_by_week gives for w (here: added in some order of the categories
\* they give that very number), and the weeks listed under the categories
\* are together the weeks of summarize_by_week.
C28_CategoriesAddUp ==
    call.op = "summarize_both" =>
        /\ \A w \in DOMAIN ret.float_totals :
               \E order \in Orders(DOMAIN ret.float_by_category) :
                   FloatSumOver(ret.float_by_category, order, Len(order), w)
                       = ret.float_totals[w]
        /\ SameWeeks

\* C28 as amended: the weeks listed under the categories are together the
\* weeks of summarize_by_week, and for every week w the totals of w under
\* the categories, added in any order, and the total of w are the same
\* number when rounded to two decimals, the exact sum of the scores.
C28_CategoriesAddUpRounded ==
    call.op = "summarize_both" =>
        /\ SameWeeks
        /\ DOMAIN ret.float_totals = DOMAIN ret.totals
        /\ \A w \in DOMAIN ret.totals :
               /\ ret.totals[w] = ScoreSumTo(call.entries, Len(call.entries), w, Categories)
               /\ SumOverCategories(ret.by_category, DOMAIN ret.by_category, w) = ret.totals[w]
               /\ IsHundredths(ret.float_totals[w], ret.totals[w])
               /\ \A order \in Orders(DOMAIN ret.float_by_category) :
                      IsHundredths(FloatSumOver(ret.float_by_category, order, Len(order), w),
                                   ret.totals[w])

\* C28 witness: week 0 holds study hours 0.36, exercise 9.5 and study hours
\* 0.36 again; the week's total is the double below 10.22 and the category
\* totals add up to the double 10.22
C28_Witness ==
    /\ call.op = "summarize_both"
    /\ Len(call.entries) = 3
    /\ DOMAIN ret.by_category = {StudyHours, Exercise}
    /\ ret.totals = (0 :> 1022)
    /\ ret.float_by_category[Exercise][0] = FloatDiv(950, 100)
    /\ FloatLess(ret.float_totals[0], FloatDiv(1022, 100))
    /\ FloatAdd(ret.float_by_category[StudyHours][0], ret.float_by_category[Exercise][0])
           = FloatDiv(1022, 100)

\* t tenths is num/den rounded to one decimal (either neighbour at a tie)
IsNearestTenth(t, num, den) ==
    /\ 2 * (10 * num - t * den) <= den
    /\ 2 * (t * den - 10 * num) <= den

\* The text of position i of n is the exact value of
\* padding + (i - 1) * ((width - 2 * padding) / max(n - 1, 1)) to one decimal
WrittenAsFormula(x, i, n) ==
    LET den == IF n - 1 > 1 THEN n - 1 ELSE 1
    IN  IsNearestTenth(FormatTenths(x), Padding * den + (i - 1) * (Width - 2 * Padding), den)

\* x is the double of the integer k or one of the two doubles next to it
\* (k from 512 to 1023, where doubles are 2^-43 apart)
WithinOneUlp(x, k) ==
    /\ x.exp = 0 - 43
    /\ LessNat(x.mantissa, AddNat(ShiftLeft(NatOf(k), 43), <<2>>, 0))
    /\ LessNat(ShiftLeft(NatOf(k), 43), AddNat(x.mantissa, <<2>>, 0))

\* C25 as stated: for a domain of n >= 1 weeks the X position of index i is
\* padding + i*((width - 2*padding)/max(n-1, 1)); the positions are strictly
\* increasing, the first is 50, the last is 750 when n >= 2, every position
\* lies in [50, 750], and the spacing depends on the index only, not on the
\* dates.
C25_XPositions ==
    call.op = "x_pos" =>
        LET n == Len(ret.axis)
        IN  /\ n = Len(call.result)
            /\ \A i \in 1..(n - 1) : FloatLess(ret.axis[i], ret.axis[i + 1])
            /\ ret.axis[1] = FromInt(Padding)
            /\ n >= 2 => ret.axis[n] = FromInt(Width - Padding)
            /\ \A i \in 1..n :
                   /\ ~FloatLess(ret.axis[i], FromInt(Padding))
                   /\ ~FloatLess(FromInt(Width - Padding), ret.axis[i])
                   /\ WrittenAsFormula(ret.axis[i], i, n)

\* C25 as amended: the positions are strictly increasing, the first is 50,
\* the last, when n >= 2, is 750 or a double next to 750 and is written as
\* 750.0, no position is below 50 or above the double after 750, and every
\* position is written, to one decimal, as the value of the formula for its
\* index and n, whatever the dates.
C25_XPositionsToOneUlp ==
    call.op = "x_pos" =>
        LET n == Len(ret.axis)
        IN  /\ n = Len(call.result)
            /\ \A i \in 1..(n - 1) : FloatLess(ret.axis[i], ret.axis[i + 1])
            /\ ret.axis[1] = FromInt(Padding)
            /\ n >= 2 => /\ WithinOneUlp(ret.axis[n], Width - Padding)
                          /\ FormatTenths(ret.axis[n]) = 10 * (Width - Padding)
            /\ \A i \in 1..n :
                   /\ ~FloatLess(ret.axis[i], FromInt(Padding))
                   /\ ~FloatLess(ret.axis[n], ret.axis[i])
                   /\ WrittenAsFormula(ret.axis[i], i, n)

\* C25 witness: the axis of 78 weeks with a missing week; its last position
\* is the double after 750 and its second is written as 59.1 (50 + 700/77)
C25_Witness ==
    /\ call.op = "x_pos"
    /\ Len(ret.axis) = 78
    /\ call.result[2] = 14
    /\ FloatLess(FromInt(Width - Padding), ret.axis[78])
    /\ FormatTenths(ret.axis[78]) = 7500
    /\ FormatTenths(ret.axis[2]) = 591

\* The series the renderer was handed, by label, and their shared domain
SeriesLabels == {TotalLabel} \cup DOMAIN ret.series.category_data

SeriesOf(label) ==
    IF label = TotalLabel THEN ret.series.totals ELSE ret.series.category_data[label]

SharedDomain == Sorted(UNION {DOMAIN SeriesOf(label) : label \in SeriesLabels})

IndexIn(seq, x) == CHOOSE i \in 1..Len(seq) : seq[i] = x

DocumentWritten == ret.svg.y_labels # <<>>

PathsOf(label) == SelectSeq(ret.svg.paths, LAMBDA p : p.label = label)

\* C23: in a written chart every series with k >= 1 values has exactly one
\* path, of k commands, the first a move and the others lines, the j-th
\* command at the X position (to one decimal) of the index, in the sorted
\* union of all weeks of all series, of the j-th week of the series in
\* ascending order; so a week without a value adds no command and a series
\* with one value is a single move.
C23_PathCommands ==
    DocumentWritten =>
        \A label \in SeriesLabels :
            LET weeks == Sorted(DOMAIN SeriesOf(label))
                drawn == PathsOf(label)
                n == Len(SharedDomain)
                den == IF n - 1 > 1 THEN n - 1 ELSE 1
            IN  Len(weeks) >= 1 =>
                    /\ Len(drawn) = 1
                    /\ Len(drawn[1].d) = Len(weeks)
                    /\ \A j \in 1..Len(weeks) :
                           /\ drawn[1].d[j].cmd = IF j = 1 THEN "M" ELSE "L"
                           /\ IsNearestTenth(drawn[1].d[j].x,
                                             Padding * den
                                                 + (IndexIn(SharedDomain, weeks[j]) - 1)
                                                       * (Width - 2 * Padding),
                                             den)

\* plot_scores_svg drew a domain of three dates: one series has the first and
\* the last only (a move at 50.0, a line to 750.0), one the middle only (a
\* single move at 400.0)
C23_Witness ==
    /\ call.op = "plot_scores_svg"
    /\ DocumentWritten
    /\ SharedDomain = <<0, 2, 7>>
    /\ {StudyHours, Exercise} \subseteq DOMAIN ret.series.category_data
    /\ DOMAIN SeriesOf(StudyHours) = {0, 7}
    /\ [j \in 1..2 |-> <<PathsOf(StudyHours)[1].d[j].cmd, PathsOf(StudyHours)[1].d[j].x>>]
           = << <<"M", 500>>, <<"L", 7500>> >>
    /\ DOMAIN SeriesOf(Exercise) = {2}
    /\ Len(PathsOf(Exercise)[1].d) = 1
    /\ PathsOf(Exercise)[1].d[1].cmd = "M"
    /\ PathsOf(Exercise)[1].d[1].x = 4000

\* The order in which series are drawn: the totals, then the categories by name
SeriesOrder == <<TotalLabel>> \o CategorySortOrder

\* C24: a written chart has as many paths as legend entries and as series
\* with at least one value; a series without a value has neither a path nor
\* a legend entry; paths and legend entries name the same series in the same
\* order, the totals first when present and the categories after them in the
\* order of their names; legend entry i, counted from 0, is at x = 50 + 120*i.
C24_PathsAndLegend ==
    DocumentWritten =>
        LET paths == ret.svg.paths
            legend == ret.svg.legend
            drawn == {label \in SeriesLabels : DOMAIN SeriesOf(label) # {}}
        IN  /\ Len(paths) = Len(legend)
            /\ Len(paths) = Cardinality(drawn)
            /\ \A i \in 1..Len(paths) :
                   /\ paths[i].label \in drawn
                   /\ legend[i].label = paths[i].label
                   /\ legend[i].x = Padding + 120 * (i - 1)
            /\ TotalLabel \in drawn => paths[1].label = TotalLabel
            /\ \A i \in 1..Len(paths) : \A j \in (i + 1)..Len(paths) :
                   IndexIn(SeriesOrder, paths[i].label) < IndexIn(SeriesOrder, paths[j].label)

\* A chart of three categories and no totals: three paths and three legend
\* entries in the order of the category names, at 50, 170 and 290
C24_Witness ==
    /\ DocumentWritten
    /\ DOMAIN ret.series.totals = {}
    /\ [i \in 1..Len(ret.svg.legend) |-> <<ret.svg.legend[i].label, ret.svg.legend[i].x>>]
           = << <<StudyHours, 50>>, <<LifeRhythm, 170>>, <<Exercise, 290>> >>
    /\ [i \in 1..Len(ret.svg.paths) |-> ret.svg.paths[i].label]
           = <<StudyHours, LifeRhythm, Exercise>>

\* The colors of the paths of a series in a document
ColorsOf(document, label) ==
    {document.paths[i].stroke :
        i \in {j \in 1..Len(document.paths) : document.paths[j].label = label}}

\* C29: the color of the path of a category in a written chart is the color
\* the category has in the chart of the same series with any of the other
\* categories left out.
C29_ColorOfCategory ==
    DocumentWritten =>
        \A category \in DOMAIN ret.series.category_data :
            \A others \in SUBSET (DOMAIN ret.series.category_data \ {category}) :
                ColorsOf(svg_document(ret.series.totals,
                                      [c \in others \cup {category} |->
                                          ret.series.category_data[c]]),
                         category)
                    = ColorsOf(ret.svg, category)

\* 50 <= y <= 350 for a position [neg, abs]
InPlotArea(y) ==
    /\ ~y.neg
    /\ ~FloatLess(y.abs, FromInt(Padding))
    /\ ~FloatLess(FromInt(Height - Padding), y.abs)

\* C26: in a store the buttons of the UI have made, every weekly total, as
\* summarize_by_week adds it, is at least 0 and at most 100; in a chart made
\* from such a store the Y position of every value of every series is at
\* least 50 and at most 350, and so is every Y written in a path.
C26_TotalsInPlotArea ==
    LET totals == summarize_by_week_floats(load_entries(csv).entries)
    IN  /\ \A w \in DOMAIN totals : ~FloatLess(FromInt(100), totals[w])
        /\ \A label \in SeriesLabels : \A w \in DOMAIN SeriesOf(label) :
               InPlotArea(y_pos(SeriesOf(label)[w]))
        /\ \A i \in 1..Len(ret.svg.paths) : \A j \in 1..Len(ret.svg.paths[i].d) :
               ret.svg.paths[i].d[j].y \in (10 * Padding)..(10 * (Height - Padding))

\* The report button drew a store with a week of total 100 and a week of
\* total 0: the path of the totals goes from the top of the plot area to
\* its bottom
C26_Witness ==
    /\ call.op = "generate_report"
    /\ DocumentWritten
    /\ DOMAIN ret.series.totals = {0, 7}
    /\ ret.series.totals[0] = FromInt(100)
    /\ ret.series.totals[7] = FloatZero
    /\ [j \in 1..2 |-> ret.svg.paths[1].d[j].y] = <<500, 3500>>

=============================================================================
